---- MODULE Spec2Model ----
(***************************************************************************)
(* Turn-based battle demo: the battle state machine of BattleScene, the    *)
(* UiMenus action/target menu flow, the menu input mapping, the engine's   *)
(* keyboard input, the weighted draw of start_round, and of the renderer   *)
(* the glyph atlas, the text preparation and the instance pools.           *)
(*                                                                         *)
(* One tick of the scene is one step.  A panic (unwrap on None/Err, an     *)
(* empty gen_range, a failed clamp assertion, an arithmetic overflow in a  *)
(* build with overflow checks) aborts the process: it is recorded in       *)
(* `panicked`, and no further step is taken.  An overflowing i8 operation  *)
(* has both outcomes a build can give it: the panic and the wrapped value. *)
(***************************************************************************)
EXTENDS Integers, Sequences, FiniteSets, TLC

\* ------------------------------------------------------------------------
\* Bounds of the model
\* ------------------------------------------------------------------------

\* characters that may be spawned into a battle roster
MaxChars == 2
\* largest speed stat given to a character
MaxSpeed == 1
\* longest action list given to a character
MaxActions == 2
\* entity generations wrap at this width
GenWrap == 2
\* most keys newly pressed between two ticks
MaxKeys == 2
\* characters available to the target-derivation specification
MaxTargetChars == 3
\* largest option count given to a menu in the input-mapping specification
MaxMenuOptions == 6
\* largest option count given to a menu in the wide-menu specification
MaxOptions == 130
\* most keys physically down at once in the keyboard specification
MaxHeld == 2
\* largest option count given to the menu in the keyboard specification
MaxInputOptions == 3
\* side of the glyph atlas, standing for DEFAULT_START_SIZE
AtlasSide == 2
\* glyph cache keys the text of a frame is laid out with
MaxGlyphs == 6
\* most glyphs in the text of one frame
MaxFrameGlyphs == 2
\* text blocks prepared side by side
MaxBlocks == 2
\* most lines in a text block
MaxLines == 2
\* most glyphs in a line of a text block
MaxLineGlyphs == 1
\* largest colour value given to a glyph or a text block
MaxColor == 1
\* width in bits of the line hash, standing for the 64 bits of FxHasher
HashBits == 8
\* textures the sprites of a frame are drawn with
MaxTextures == 3
\* most sprites drawn with one texture in a frame
MaxInstances == 2
\* menu entities a frame may hold
MaxUi == 3
\* characters available to the weighted-draw specification
MaxDrawChars == 3
\* largest speed stat in the weighted-draw specification
MaxDrawSpeed == 2
\* largest option count of a menu entity handed to the UI pipeline
MaxUiOptions == 1

\* ------------------------------------------------------------------------
\* Program constants
\* ------------------------------------------------------------------------

\* Entity::DANGLING, the current character before the first turn
Dangling == 0

\* Ui3d::default().font_size
DefaultFontSize == 30

\* the metrics insert_ui shapes the text of a new menu with
InsertMetrics == 10

\* the keys process_input looks at
Keys == {"ArrowUp", "ArrowDown", "Enter", "ArrowRight", "ArrowLeft"}

\* Input.just_pressed as a tick can find it
KeySets == {keys \in SUBSET Keys : Cardinality(keys) <= MaxKeys}

TargetNone == [kind |-> "None", can_target_caster |-> FALSE]
TargetCaster == [kind |-> "Caster", can_target_caster |-> FALSE]
TargetEnemy == [kind |-> "Enemy", can_target_caster |-> FALSE]
TargetAny(c) == [kind |-> "Any", can_target_caster |-> c]
TargetFriendly(c) == [kind |-> "Friendly", can_target_caster |-> c]

\* every value of the TargetType enum
TargetType ==
    {TargetNone, TargetCaster, TargetEnemy}
        \cup {TargetAny(c) : c \in BOOLEAN}
        \cup {TargetFriendly(c) : c \in BOOLEAN}

\* ActionRepo::new: ids are handed out from 0 in insertion order
ActionRepo ==
    [id \in 0 .. 4 |->
        CASE id = 0 -> [name |-> "Idle", target |-> TargetNone]
          [] id = 1 -> [name |-> "Punch", target |-> TargetEnemy]
          [] id = 2 -> [name |-> "Block", target |-> TargetCaster]
          [] id = 3 -> [name |-> "Heal", target |-> TargetAny(TRUE)]
          [] id = 4 -> [name |-> "Shield", target |-> TargetFriendly(TRUE)]]

ActionIds == DOMAIN ActionRepo

\* actions of the two TargetType values ActionRepo::new gives to no action,
\* for a repo handed to UiMenus::tick by a caller other than the battle
OtherActions ==
    [id \in 5 .. 6 |->
        CASE id = 5 -> [name |-> "AnyOther", target |-> TargetAny(FALSE)]
          [] id = 6 -> [name |-> "FriendlyOther", target |-> TargetFriendly(FALSE)]]

\* the ids a repo handed to UiMenus can hold
RepoIds == ActionIds \cup DOMAIN OtherActions

\* ActionRepo::get_action on an id the repo holds
GetAction(id) == IF id \in ActionIds THEN ActionRepo[id] ELSE OtherActions[id]

\* ------------------------------------------------------------------------
\* State
\* ------------------------------------------------------------------------

VARIABLES
    friendly,           \* Characters.friendly
    enemy,              \* Characters.enemy
    speed,              \* Character.stats.speed of each roster member
    actions,            \* Character.actions of each roster member
    battle_state,       \* tag of BattleScene.battle_state
    ui_menus,           \* payload of BattleState::WaitingForInput: <<>> or <<UiMenus>>
    current_character,  \* BattleScene.current_character
    turn_order,         \* BattleScene.turn_order
    world,              \* live menu entities of the hecs World and their Ui3d
    meta,               \* generation of every entity slot handed out for menus
    free,               \* freed entity slots, last freed last
    panicked,           \* "none" or the panic that aborted the process
    last_call,          \* arguments and result of the latest direct call of
                        \* process_input or spawn_target_menu
    last_tick,          \* history: what the latest tick_battle did
    round,              \* history: the turn order start_round built last and
                        \* the characters that became current since
    pressed,            \* Input.pressed of StateInner.keys
    just_pressed,       \* Input.just_pressed of StateInner.keys
    released,           \* Input.released of StateInner.keys
    held,               \* environment: the keys physically down
    fresh,              \* history: the keys that went from up to down since
                        \* the latest tick
    delivered,          \* history: the keys a pressed event arrived for
                        \* since the latest tick
    text_atlas,         \* TextAtlas: packer, cached_glyphs, glyphs_in_use
    used_ok,            \* history: the keys use_glyph succeeded for since the
                        \* latest post_render_trim
    text_blocks,        \* the TextBuffers handed to text_shared::prep
    text_seen,          \* history: each block's layout at its latest pass
    pipeline,           \* the pipeline whose instance pool is prepared
    instances,          \* the instance pool of the pipeline: key -> buffer
    previous,           \* TexturePipeline::previous (engine)
    to_draw,            \* TexturePipeline::to_draw (engine)
    textures_to_add     \* TexturePipeline::textures_to_add (engine)

\* the Input<KeyCode> of the engine and the keyboard it listens to
input_vars == <<pressed, just_pressed, released, held, fresh, delivered>>

\* the TextAtlas of the renderer
atlas_vars == <<text_atlas, used_ok>>

\* the instance pool of a render pipeline
pool_vars == <<pipeline, instances, previous, to_draw, textures_to_add>>

\* the text blocks and the instance pools of the render pipelines
render_vars == <<text_blocks, text_seen, pool_vars>>

vars ==
    <<friendly, enemy, speed, actions, battle_state, ui_menus, current_character,
      turn_order, world, meta, free, panicked, last_call, last_tick, round,
      input_vars, atlas_vars, render_vars>>

config == <<friendly, enemy, speed, actions>>

Roster == friendly \cup enemy

\* ------------------------------------------------------------------------
\* Helpers
\* ------------------------------------------------------------------------

\* every order in which a HashSet may be iterated
SeqsOf(S) ==
    {s \in [1 .. Cardinality(S) -> S] : \A i, j \in DOMAIN s : i # j => s[i] # s[j]}

\* Vec::remove
RemoveAt(s, i) == [j \in 1 .. Len(s) - 1 |-> IF j < i THEN s[j] ELSE s[j + 1]]

\* sequences over S of length at most n
SeqsUpTo(S, n) == UNION {[1 .. k -> S] : k \in 0 .. n}

\* ------------------------------------------------------------------------
\* The entity store (hecs World), as far as menu entities go
\* ------------------------------------------------------------------------

\* World::spawn: reuse the slot freed last, else open a new slot
SpawnEntity(w, m, f, ui) ==
    IF f # <<>>
    THEN LET idx == f[Len(f)]
             e == [idx |-> idx, gen |-> m[idx]]
         IN  [entity |-> e, world |-> (e :> ui) @@ w, meta |-> m,
              free |-> SubSeq(f, 1, Len(f) - 1)]
    ELSE LET idx == Len(m) + 1
             e == [idx |-> idx, gen |-> 0]
         IN  [entity |-> e, world |-> (e :> ui) @@ w, meta |-> Append(m, 0),
              free |-> f]

\* a despawn that leaves the world as it is
DespawnEntityNoop(w, m, f, e) == [world |-> w, meta |-> m, free |-> f]

\* World::despawn(..).ok(): a stale entity is left alone, a live one is
\* removed, its slot's generation moves on and the slot is freed
DespawnEntity(w, m, f, e) ==
    IF e \in DOMAIN w
    THEN [world |-> [x \in DOMAIN w \ {e} |-> w[x]],
          meta |-> [m EXCEPT ![e.idx] = (@ + 1) % GenWrap],
          free |-> Append(f, e.idx)]
    ELSE [world |-> w, meta |-> m, free |-> f]

\* Ui3d { options, ..Default::default() }
NewUi3d(options) == [options |-> options, selected |-> 0]

\* ------------------------------------------------------------------------
\* UiMenus::process_input
\* ------------------------------------------------------------------------

\* `x as i8`
AsI8(n) == LET m == n % 256 IN IF m >= 128 THEN m - 256 ELSE m

InI8(n) == n >= -128 /\ n <= 127

\* variant: ArrowRight is looked at before Enter
MenuActionRightFirst(keys) ==
    IF "ArrowRight" \in keys THEN "Forward"
    ELSE IF "Enter" \in keys THEN "Select"
    ELSE IF "ArrowLeft" \in keys THEN "Back"
    ELSE "None"

\* the UiMenuAction chosen from the newly pressed keys
MenuAction(keys) ==
    IF "Enter" \in keys THEN "Select"
    ELSE IF "ArrowRight" \in keys THEN "Forward"
    ELSE IF "ArrowLeft" \in keys THEN "Back"
    ELSE "None"

\* variant: the down key is read inverted
MenuDirDownInverted(keys) ==
    (IF "ArrowDown" \in keys THEN 0 ELSE 1) - (IF "ArrowUp" \in keys THEN 1 ELSE 0)

\* down_pressed as i8 - up_pressed as i8
MenuDir(keys) ==
    (IF "ArrowDown" \in keys THEN 1 ELSE 0) - (IF "ArrowUp" \in keys THEN 1 ELSE 0)

\* process_input clamping the index at zero only
ProcessInputNoUpperClamp(keys, ui) ==
    LET sum == AsI8(ui.selected) + MenuDir(keys)
        selected == AsI8(sum)
    IN  {[selected |-> IF selected < 0 THEN 0 ELSE selected,
          action |-> MenuAction(keys), panic |-> "none"]}

\* process_input on a menu whose Ui3d is ui: the new selected index and the
\* action returned, or the panic raised on the way
ProcessInput(keys, ui) ==
    LET sum == AsI8(ui.selected) + MenuDir(keys)
        top == AsI8(Len(ui.options)) - 1
        selected == AsI8(sum)
        hi == AsI8(top)
        clamped == IF selected < 0 THEN 0 ELSE IF selected > hi THEN hi ELSE selected
        overflow == [selected |-> ui.selected, action |-> "None", panic |-> "overflow"]
        wrapped ==
            IF hi < 0
            THEN [selected |-> ui.selected, action |-> "None", panic |-> "clamp"]
            ELSE [selected |-> clamped, action |-> MenuAction(keys), panic |-> "none"]
    IN  IF InI8(sum) /\ InI8(top) THEN {wrapped} ELSE {overflow, wrapped}

\* ------------------------------------------------------------------------
\* BattleScene::start_round
\* ------------------------------------------------------------------------

\* the candidate the scan of character_weights stops at for a roll
RECURSIVE FindDrawn(_, _, _, _)
FindDrawn(cw, roll, i, acc) ==
    IF acc + cw[i].weight > roll THEN i
    ELSE FindDrawn(cw, roll, i + 1, acc + cw[i].weight)

\* the while loop: every turn order it can end with, over all rolls, or
\* the panic of gen_range on an empty range
RECURSIVE DrawLoop(_, _, _)
DrawLoop(cw, weight, order) ==
    IF cw = <<>> THEN {[order |-> order, panic |-> "none"]}
    ELSE IF Len(cw) = 1 THEN {[order |-> Append(order, cw[1].id), panic |-> "none"]}
    ELSE IF weight = 0 THEN {[order |-> order, panic |-> "empty_range"]}
    ELSE UNION {
            LET i == FindDrawn(cw, roll, 1, 0)
            IN  DrawLoop(RemoveAt(cw, i), weight - cw[i].weight, Append(order, cw[i].id))
            : roll \in 0 .. weight - 1}

RECURSIVE SumWeights(_)
SumWeights(cw) == IF cw = <<>> THEN 0 ELSE cw[1].weight + SumWeights(Tail(cw))

\* character_weights: the friendly set and then the enemy set, each in
\* whatever order its HashSet iterates
CharacterWeights ==
    {[i \in 1 .. Len(f) + Len(e) |->
        LET id == IF i <= Len(f) THEN f[i] ELSE e[i - Len(f)]
        IN  [weight |-> speed[id], id |-> id]]
     : f \in SeqsOf(friendly), e \in SeqsOf(enemy)}

\* every outcome of start_round
StartRoundOutcomes ==
    UNION {DrawLoop(cw, SumWeights(cw), <<>>) : cw \in CharacterWeights}

\* ------------------------------------------------------------------------
\* UiMenus
\* ------------------------------------------------------------------------

\* Character.name: every character of the model carries its own name
CharName(id) == ToString(id)

\* variant: the caster is never taken out of the target set
EligibleTargetsKeepCaster(target, caster, f, e) ==
    LET is_friendly == caster \in f
    IN  CASE target.kind = "Any" -> f \cup e
          [] target.kind = "Friendly" /\ is_friendly -> f
          [] target.kind = "Friendly" /\ ~is_friendly -> e
          [] target.kind = "Enemy" /\ is_friendly -> f
          [] target.kind = "Enemy" /\ ~is_friendly -> e

\* the match of spawn_target_menu on (action.target, friendly)
EligibleTargets(target, caster, f, e) ==
    LET is_friendly == caster \in f
        without_caster(S) == IF target.can_target_caster THEN S ELSE S \ {caster}
    IN  CASE target.kind = "Any" -> without_caster(f \cup e)
          [] target.kind = "Friendly" /\ is_friendly -> without_caster(f)
          [] target.kind = "Friendly" /\ ~is_friendly -> without_caster(e)
          [] target.kind = "Enemy" /\ is_friendly -> f
          [] target.kind = "Enemy" /\ ~is_friendly -> e

\* variant: spawn_target_menu without the check for an empty target set
SpawnTargetMenuUnchecked(menus, w, m, f, target) ==
    IF target.kind \in {"None", "Caster"}
    THEN {[ok |-> FALSE, menus |-> menus, world |-> w, meta |-> m, free |-> f,
           panic |-> "todo"]}
    ELSE LET options == EligibleTargets(target, menus.current_character, friendly, enemy)
         IN  {LET s == SpawnEntity(w, m, f,
                                   NewUi3d([i \in DOMAIN ids |-> CharName(ids[i])]))
              IN  [ok |-> TRUE, menus |-> [menus EXCEPT !.target_menu = <<s.entity>>],
                   world |-> s.world, meta |-> s.meta, free |-> s.free,
                   panic |-> "none"]
              : ids \in SeqsOf(options)}

\* spawn_target_menu: todo!() for a policy without targets, Err(()) on an
\* empty target set, else a target menu listing the targets' names in the
\* order the HashSet yields them
SpawnTargetMenu(menus, w, m, f, target) ==
    IF target.kind \in {"None", "Caster"}
    THEN {[ok |-> FALSE, menus |-> menus, world |-> w, meta |-> m, free |-> f,
           panic |-> "todo"]}
    ELSE LET options == EligibleTargets(target, menus.current_character, friendly, enemy)
         IN  IF options = {}
             THEN {[ok |-> FALSE, menus |-> menus, world |-> w, meta |-> m, free |-> f,
                    panic |-> "none"]}
             ELSE {LET s == SpawnEntity(w, m, f,
                                        NewUi3d([i \in DOMAIN ids |-> CharName(ids[i])]))
                   IN  [ok |-> TRUE, menus |-> [menus EXCEPT !.target_menu = <<s.entity>>],
                        world |-> s.world, meta |-> s.meta, free |-> s.free,
                        panic |-> "none"]
                   : ids \in SeqsOf(options)}

\* variant: drop_menus forgets the action menu
DropMenusTargetOnly(menus, w, m, f) ==
    IF menus.target_menu # <<>>
    THEN DespawnEntity(w, m, f, menus.target_menu[1])
    ELSE [world |-> w, meta |-> m, free |-> f]

\* variant: drop_menus forgets the target menu
DropMenusActionOnly(menus, w, m, f) == DespawnEntity(w, m, f, menus.action_menu)

\* drop_menus
DropMenus(menus, w, m, f) ==
    LET a == DespawnEntity(w, m, f, menus.action_menu)
    IN  IF menus.target_menu # <<>>
        THEN DespawnEntity(a.world, a.meta, a.free, menus.target_menu[1])
        ELSE a

UiResult(output, menus, w, m, f, panic, input) ==
    [output |-> output, menus |-> menus, world |-> w, meta |-> m, free |-> f,
     panic |-> panic, input |-> input]

\* variant: Back forgets the target menu without despawning it
TickTargetMenuBackLeaks(menus, keys) ==
    LET t == menus.target_menu[1]
    IN  UNION {
            LET w == [world EXCEPT ![t].selected = r.selected]
                in == [menu |-> "target", action |-> r.action, selected |-> r.selected]
            IN  IF r.panic # "none"
                THEN {UiResult("None", menus, world, meta, free, r.panic, in)}
                ELSE IF r.action \in {"Forward", "Select"}
                THEN {UiResult("SkipTurn", menus, w, meta, free, "none", in)}
                ELSE IF r.action = "Back"
                THEN {UiResult("None", [menus EXCEPT !.target_menu = <<>>],
                               w, meta, free, "none", in)}
                ELSE {UiResult("None", menus, w, meta, free, "none", in)}
            : r \in ProcessInput(keys, world[t])}

\* UiMenus::tick while a target menu exists
TickTargetMenu(menus, keys) ==
    LET t == menus.target_menu[1]
    IN  UNION {
            LET w == [world EXCEPT ![t].selected = r.selected]
                in == [menu |-> "target", action |-> r.action, selected |-> r.selected]
            IN  IF r.panic # "none"
                THEN {UiResult("None", menus, world, meta, free, r.panic, in)}
                ELSE IF r.action \in {"Forward", "Select"}
                THEN {UiResult("SkipTurn", menus, w, meta, free, "none", in)}
                ELSE IF r.action = "Back"
                THEN LET d == DespawnEntity(w, meta, free, t)
                     IN  {UiResult("None", [menus EXCEPT !.target_menu = <<>>],
                                   d.world, d.meta, d.free, "none", in)}
                ELSE {UiResult("None", menus, w, meta, free, "none", in)}
            : r \in ProcessInput(keys, world[t])}

\* variant: only policy None ends the turn from the action menu
TickActionMenuCasterTargets(menus, keys) ==
    LET a == menus.action_menu
        own == actions[menus.current_character]
    IN  UNION {
            LET w == [world EXCEPT ![a].selected = r.selected]
                in == [menu |-> "action", action |-> r.action, selected |-> r.selected]
            IN  IF r.panic # "none"
                THEN {UiResult("None", menus, world, meta, free, r.panic, in)}
                ELSE IF r.action \in {"Forward", "Select"}
                THEN LET action == GetAction(own[r.selected + 1])
                     IN  IF action.target.kind = "None"
                         THEN {UiResult("SkipTurn", menus, w, meta, free, "none", in)}
                         ELSE {UiResult("None", s.menus, s.world, s.meta, s.free,
                                        s.panic, in)
                               : s \in SpawnTargetMenu(menus, w, meta, free, action.target)}
                ELSE {UiResult("None", menus, w, meta, free, "none", in)}
            : r \in ProcessInput(keys, world[a])}

\* UiMenus::tick while only the action menu exists
TickActionMenu(menus, keys) ==
    LET a == menus.action_menu
        own == actions[menus.current_character]
    IN  UNION {
            LET w == [world EXCEPT ![a].selected = r.selected]
                in == [menu |-> "action", action |-> r.action, selected |-> r.selected]
            IN  IF r.panic # "none"
                THEN {UiResult("None", menus, world, meta, free, r.panic, in)}
                ELSE IF r.action \in {"Forward", "Select"}
                THEN IF r.selected + 1 > Len(own) \/ own[r.selected + 1] \notin RepoIds
                     THEN {UiResult("None", menus, w, meta, free, "unwrap_none", in)}
                     ELSE LET action == GetAction(own[r.selected + 1])
                          IN  IF action.target.kind \in {"None", "Caster"}
                              THEN {UiResult("SkipTurn", menus, w, meta, free, "none", in)}
                              ELSE {UiResult("None", s.menus, s.world, s.meta, s.free,
                                             s.panic, in)
                                    : s \in SpawnTargetMenu(menus, w, meta, free,
                                                            action.target)}
                ELSE {UiResult("None", menus, w, meta, free, "none", in)}
            : r \in ProcessInput(keys, world[a])}

\* UiMenus::tick: every result it can have for the keys newly pressed
UiTick(menus, keys) ==
    IF menus.target_menu # <<>> THEN TickTargetMenu(menus, keys)
    ELSE TickActionMenu(menus, keys)

\* variant: UiMenus::new without the check for an empty action list
NewUiMenusUnchecked(w, m, f, character) ==
    LET own == actions[character]
        s == SpawnEntity(w, m, f, NewUi3d([i \in DOMAIN own |-> GetAction(own[i]).name]))
    IN  [ok |-> TRUE,
         menus |-> <<[action_menu |-> s.entity, target_menu |-> <<>>,
                      current_character |-> character]>>,
         world |-> s.world, meta |-> s.meta, free |-> s.free]

\* variant: the menu entity is spawned before the action list is looked at
NewUiMenusSpawnsFirst(w, m, f, character) ==
    LET own == actions[character]
        s == SpawnEntity(w, m, f, NewUi3d([i \in DOMAIN own |-> GetAction(own[i]).name]))
    IN  [ok |-> own # <<>>,
         menus |-> IF own = <<>> THEN <<>>
                   ELSE <<[action_menu |-> s.entity, target_menu |-> <<>>,
                           current_character |-> character]>>,
         world |-> s.world, meta |-> s.meta, free |-> s.free]

\* UiMenus::new: Err(()) for a character without actions, else a spawned
\* action menu listing the action names
NewUiMenus(w, m, f, character) ==
    LET own == actions[character]
    IN  IF own = <<>>
        THEN [ok |-> FALSE, menus |-> <<>>, world |-> w, meta |-> m, free |-> f]
        ELSE LET s == SpawnEntity(w, m, f, NewUi3d([i \in DOMAIN own |-> GetAction(own[i]).name]))
             IN  [ok |-> TRUE,
                  menus |-> <<[action_menu |-> s.entity, target_menu |-> <<>>,
                               current_character |-> character]>>,
                  world |-> s.world, meta |-> s.meta, free |-> s.free]

\* ------------------------------------------------------------------------
\* BattleScene
\* ------------------------------------------------------------------------

\* variant: the queue is consumed from its back
PopBack(q) == [item |-> q[Len(q)], rest |-> SubSeq(q, 1, Len(q) - 1)]

\* variant: the front is read and stays in the queue
PopFrontKeeps(q) == [item |-> Head(q), rest |-> q]

\* VecDeque::pop_front on a queue that is not empty
PopFront(q) == [item |-> Head(q), rest |-> Tail(q)]

\* start_turn, run on the entity store it is handed
StartTurn(w, m, f) ==
    IF turn_order = <<>>
    THEN /\ battle_state' = "StartingRound"
         /\ ui_menus' = <<>>
         /\ world' = w /\ meta' = m /\ free' = f
         /\ UNCHANGED <<turn_order, current_character, panicked, round>>
    ELSE LET next_character == PopFront(turn_order).item
             menu == NewUiMenus(w, m, f, next_character)
         IN  /\ turn_order' = PopFront(turn_order).rest
             /\ current_character' = next_character
             /\ round' = [round EXCEPT !.turns = Append(@, next_character)]
             /\ world' = menu.world /\ meta' = menu.meta /\ free' = menu.free
             /\ IF menu.ok
                THEN /\ battle_state' = "WaitingForInput"
                     /\ ui_menus' = menu.menus
                     /\ UNCHANGED panicked
                ELSE /\ panicked' = "unwrap_err"
                     /\ UNCHANGED <<battle_state, ui_menus>>

\* history of a tick: the arm taken, the UiMenuOutput matched on, whether
\* the tick found no key newly pressed, the menu process_input ran on and
\* the UiMenuAction it gave
TickRecord(arm, output, idle, menu, action) ==
    [arm |-> arm, output |-> output, idle |-> idle, menu |-> menu, action |-> action]

\* the Initializing arm of tick_battle
\* variant: the first tick hands the battle to the CPU
TickInitializingToCpu ==
    /\ battle_state' = "ProcessingCpu"
    /\ last_tick' = TickRecord("Initializing", "n/a", FALSE, "n/a", "n/a")
    /\ UNCHANGED <<ui_menus, current_character, turn_order, world, meta, free,
                   panicked, round>>

\* the Initializing arm of tick_battle
TickInitializing ==
    /\ battle_state' = "StartingRound"
    /\ last_tick' = TickRecord("Initializing", "n/a", FALSE, "n/a", "n/a")
    /\ UNCHANGED <<ui_menus, current_character, turn_order, world, meta, free,
                   panicked, round>>

\* the StartingRound arm of tick_battle
TickStartingRound ==
    \E o \in StartRoundOutcomes :
        /\ turn_order' = o.order
        /\ IF o.panic = "none"
           THEN /\ battle_state' = "StartingTurn"
                /\ round' = [order |-> o.order, turns |-> <<>>]
                /\ UNCHANGED panicked
           ELSE /\ panicked' = o.panic
                /\ UNCHANGED <<battle_state, round>>
        /\ last_tick' = TickRecord("StartingRound", "n/a", FALSE, "n/a", "n/a")
        /\ UNCHANGED <<ui_menus, current_character, world, meta, free>>

\* the StartingTurn arm of tick_battle
TickStartingTurn ==
    /\ StartTurn(world, meta, free)
    /\ last_tick' = TickRecord("StartingTurn", "n/a", FALSE, "n/a", "n/a")

\* the WaitingForInput arm of tick_battle, for the keys newly pressed
TickWaitingForInput(keys) ==
    \E r \in UiTick(ui_menus[1], keys) :
        /\ last_tick' = TickRecord("WaitingForInput", r.output, keys = {}, r.input.menu,
                                r.input.action)
        /\ IF r.panic # "none"
           THEN /\ panicked' = r.panic
                /\ world' = r.world /\ meta' = r.meta /\ free' = r.free
                /\ UNCHANGED <<battle_state, ui_menus, current_character, turn_order,
                               round>>
           ELSE IF r.output = "SkipTurn"
           THEN LET d == DropMenus(r.menus, r.world, r.meta, r.free)
                IN  StartTurn(d.world, d.meta, d.free)
           ELSE /\ ui_menus' = <<r.menus>>
                /\ world' = r.world /\ meta' = r.meta /\ free' = r.free
                /\ UNCHANGED <<battle_state, current_character, turn_order, panicked,
                               round>>

\* tick_battle
TickBattle ==
    CASE battle_state = "Initializing" -> TickInitializing
      [] battle_state = "StartingRound" -> TickStartingRound
      [] battle_state = "StartingTurn" -> TickStartingTurn
      [] battle_state = "WaitingForInput" ->
            \E keys \in KeySets : TickWaitingForInput(keys)
      [] battle_state = "ProcessingCpu" ->
            UNCHANGED <<battle_state, ui_menus, current_character, turn_order, world,
                        meta, free, panicked, last_tick, round>>

\* State::tick, as far as the battle goes: the scene update, which in
\* WaitingForInput reads the keys pressed since the last tick
Tick ==
    /\ panicked = "none"
    /\ TickBattle
    /\ UNCHANGED <<config, last_call, input_vars, atlas_vars, render_vars>>

\* ------------------------------------------------------------------------
\* The battle: BattleScene::new with a roster drawn from the bounded sets.
\* As in BattleScene::new the friendly characters are spawned before the
\* enemy ones and every character is handed the same action list.
\* ------------------------------------------------------------------------

NoCall == [fn |-> "none"]

NoTick == TickRecord("none", "n/a", FALSE, "n/a", "n/a")

NoRound == [order |-> <<>>, turns |-> <<>>]

\* TextAtlas::new: an empty packer, an empty LRU, no glyph in use
NewTextAtlas == [packer |-> <<>>, cached_glyphs |-> <<>>, glyphs_in_use |-> {}]

NoAtlas == text_atlas = NewTextAtlas /\ used_ok = {}

\* no text block handed to the text preparation
NoText == text_blocks = <<>> /\ text_seen = <<>>

\* every instance pool empty
NoPool ==
    /\ pipeline = "none"
    /\ instances = <<>> /\ previous = {}
    /\ to_draw = <<>> /\ textures_to_add = {}

NoRender == NoText /\ NoPool

\* Input::default, no key down
NoInput ==
    /\ pressed = {} /\ just_pressed = {} /\ released = {}
    /\ held = {} /\ fresh = {} /\ delivered = {}

Init ==
    /\ \E nf \in 0 .. MaxChars : \E ne \in 0 .. MaxChars - nf :
            /\ friendly = 1 .. nf
            /\ enemy = nf + 1 .. nf + ne
    /\ speed \in [friendly \cup enemy -> 0 .. MaxSpeed]
    /\ \E own \in SeqsUpTo(ActionIds, MaxActions) :
            actions = [c \in friendly \cup enemy |-> own]
    /\ battle_state = "Initializing"
    /\ ui_menus = <<>>
    /\ current_character = Dangling
    /\ turn_order = <<>>
    /\ world = <<>>
    /\ meta = <<>>
    /\ free = <<>>
    /\ panicked = "none"
    /\ last_call = NoCall
    /\ last_tick = NoTick
    /\ round = NoRound
    /\ NoInput
    /\ NoAtlas
    /\ NoRender

Next == Tick

Spec == Init /\ [][Next]_vars

\* ------------------------------------------------------------------------
\* The battle over a repo that also holds the other actions: every
\* character is handed an action list with at least one of them
\* ------------------------------------------------------------------------

InitOtherActions ==
    /\ \E nf \in 0 .. MaxChars : \E ne \in 0 .. MaxChars - nf :
            /\ friendly = 1 .. nf
            /\ enemy = nf + 1 .. nf + ne
    /\ speed = [c \in friendly \cup enemy |-> 1]
    /\ \E own \in SeqsUpTo(RepoIds, MaxActions) :
            /\ \E i \in DOMAIN own : own[i] \in DOMAIN OtherActions
            /\ actions = [c \in friendly \cup enemy |-> own]
    /\ battle_state = "Initializing"
    /\ ui_menus = <<>>
    /\ current_character = Dangling
    /\ turn_order = <<>>
    /\ world = <<>>
    /\ meta = <<>>
    /\ free = <<>>
    /\ panicked = "none"
    /\ last_call = NoCall
    /\ last_tick = NoTick
    /\ round = NoRound
    /\ NoInput
    /\ NoAtlas
    /\ NoRender

SpecOtherActions == InitOtherActions /\ [][Next]_vars

\* ------------------------------------------------------------------------
\* process_input on its own: one menu of any option count up to the bound,
\* called with any set of newly pressed keys
\* ------------------------------------------------------------------------

MenuEntity == [idx |-> 1, gen |-> 0]

InitMenuUpTo(bound) ==
    /\ friendly = {} /\ enemy = {}
    /\ speed = <<>> /\ actions = <<>>
    /\ battle_state = "Initializing"
    /\ ui_menus = <<>>
    /\ current_character = Dangling
    /\ turn_order = <<>>
    /\ \E n \in 1 .. bound :
            LET s == SpawnEntity(<<>>, <<>>, <<>>, NewUi3d([i \in 1 .. n |-> "option"]))
            IN  world = s.world /\ meta = s.meta /\ free = s.free
    /\ panicked = "none"
    /\ last_call = NoCall
    /\ last_tick = NoTick
    /\ round = NoRound
    /\ NoInput
    /\ NoAtlas
    /\ NoRender

ProcessInputCall(keys) ==
    /\ panicked = "none"
    /\ \E r \in ProcessInput(keys, world[MenuEntity]) :
            /\ panicked' = r.panic
            /\ world' = [world EXCEPT ![MenuEntity].selected = r.selected]
            /\ last_call' = [fn |-> "process_input",
                             moved |-> r.selected # world[MenuEntity].selected,
                             action |-> r.action]
    /\ UNCHANGED <<config, battle_state, ui_menus, current_character, turn_order,
                   meta, free, last_tick, round, input_vars, atlas_vars, render_vars>>

NextMenu == \E keys \in KeySets : ProcessInputCall(keys)

\* menus of a size the battle can show
InitMenu == InitMenuUpTo(MaxMenuOptions)

SpecMenu == InitMenu /\ [][NextMenu]_vars

\* menus up to the option counts an i8 cannot hold
InitWideMenu == InitMenuUpTo(MaxOptions)

SpecWideMenu == InitWideMenu /\ [][NextMenu]_vars

\* ------------------------------------------------------------------------
\* spawn_target_menu on its own: any roster, any caster of it, called while
\* no target menu exists, with any target policy
\* ------------------------------------------------------------------------

InitTargets ==
    /\ \E nf \in 0 .. MaxTargetChars : \E ne \in 0 .. MaxTargetChars - nf :
            /\ friendly = 1 .. nf
            /\ enemy = nf + 1 .. nf + ne
    /\ speed = [c \in friendly \cup enemy |-> 1]
    /\ actions = [c \in friendly \cup enemy |-> <<>>]
    /\ battle_state = "WaitingForInput"
    /\ current_character \in friendly \cup enemy
    /\ turn_order = <<>>
    /\ LET s == SpawnEntity(<<>>, <<>>, <<>>, NewUi3d(<<"action">>))
       IN  /\ ui_menus = <<[action_menu |-> s.entity, target_menu |-> <<>>,
                            current_character |-> current_character]>>
           /\ world = s.world /\ meta = s.meta /\ free = s.free
    /\ panicked = "none"
    /\ last_call = NoCall
    /\ last_tick = NoTick
    /\ round = NoRound
    /\ NoInput
    /\ NoAtlas
    /\ NoRender

SpawnTargetMenuCall(target) ==
    /\ panicked = "none"
    /\ ui_menus[1].target_menu = <<>>
    /\ \E r \in SpawnTargetMenu(ui_menus[1], world, meta, free, target) :
            /\ ui_menus' = <<r.menus>>
            /\ world' = r.world /\ meta' = r.meta /\ free' = r.free
            /\ panicked' = r.panic
            /\ last_call' = [fn |-> "spawn_target_menu", target |-> target, ok |-> r.ok]
    /\ UNCHANGED <<config, battle_state, current_character, turn_order, last_tick, round,
                   input_vars, atlas_vars, render_vars>>

NextTargets == \E target \in TargetType : SpawnTargetMenuCall(target)

SpecTargets == InitTargets /\ [][NextTargets]_vars

\* ------------------------------------------------------------------------
\* The engine's keyboard input in front of one menu: KeyboardInput window
\* events between ticks, each tick handing the menu the keys of
\* Input.just_pressed and then resetting the input.  The window system
\* sends a pressed event when a key goes down and, while the key stays
\* down, further pressed events flagged `repeat`; the handler reads only
\* `event.state`.
\* ------------------------------------------------------------------------

\* tools::process_inputs
ProcessInputs(key, is_pressed) ==
    IF is_pressed
    THEN /\ pressed' = pressed \cup {key}
         /\ just_pressed' = just_pressed \cup {key}
         /\ UNCHANGED released
    ELSE /\ pressed' = pressed \ {key}
         /\ released' = released \cup {key}
         /\ UNCHANGED just_pressed

\* reset_input leaving just_pressed as it is
ResetInputKeepsJustPressed ==
    /\ released' = {}
    /\ UNCHANGED <<pressed, just_pressed>>

\* tools::reset_input
ResetInput ==
    /\ just_pressed' = {}
    /\ released' = {}
    /\ UNCHANGED pressed

\* WindowEvent::KeyboardInput for a key going down
KeyDown(key) ==
    /\ key \notin held
    /\ Cardinality(held) < MaxHeld
    /\ held' = held \cup {key}
    /\ fresh' = fresh \cup {key}
    /\ delivered' = delivered \cup {key}
    /\ ProcessInputs(key, TRUE)

\* WindowEvent::KeyboardInput sent again for a key that stays down
KeyRepeat(key) ==
    /\ key \in held
    /\ UNCHANGED <<held, fresh>>
    /\ delivered' = delivered \cup {key}
    /\ ProcessInputs(key, TRUE)

\* WindowEvent::KeyboardInput for a key going up
KeyUp(key) ==
    /\ key \in held
    /\ held' = held \ {key}
    /\ UNCHANGED <<fresh, delivered>>
    /\ ProcessInputs(key, FALSE)

\* the KeyboardInput arm of State::window_event
KeyboardInput ==
    /\ panicked = "none"
    /\ \E key \in Keys : KeyDown(key) \/ KeyRepeat(key) \/ KeyUp(key)
    /\ UNCHANGED <<config, battle_state, ui_menus, current_character, turn_order,
                   world, meta, free, panicked, last_call, last_tick, round, atlas_vars, render_vars>>

\* State::tick in front of the menu: the scene update runs process_input on
\* the keys newly pressed, then reset_input clears them
InputTick ==
    /\ panicked = "none"
    /\ \E r \in ProcessInput(just_pressed, world[MenuEntity]) :
            /\ panicked' = r.panic
            /\ world' = [world EXCEPT ![MenuEntity].selected = r.selected]
            /\ last_call' = [fn |-> "tick",
                             moved |-> r.selected # world[MenuEntity].selected,
                             action |-> r.action]
    /\ ResetInput
    /\ fresh' = {}
    /\ delivered' = {}
    /\ UNCHANGED <<config, battle_state, ui_menus, current_character, turn_order,
                   meta, free, last_tick, round, held, atlas_vars, render_vars>>

NextInput == KeyboardInput \/ InputTick

InitInput == InitMenuUpTo(MaxInputOptions)

SpecInput == InitInput /\ [][NextInput]_vars

\* ------------------------------------------------------------------------
\* TextAtlas: the glyph cache.  cached_glyphs is the LruCache as a sequence
\* of entries, least recently used first; packer holds the live allocations
\* of the BucketedAtlasAllocator by AllocId.  The allocator is taken by what
\* it guarantees: a rectangle is allocated only if it fits the atlas side
\* and the free area, an empty atlas takes every rectangle that fits, and an
\* atlas with live allocations may refuse one that the free area would hold.
\* ------------------------------------------------------------------------

Glyphs == 1 .. MaxGlyphs

NoImage == [width |-> -1, height |-> -1]

\* SwashCache::get_image_uncached: the placement of the bitmap a key
\* rasterizes to.  Key 1 has no image, key 2 an empty one, the last key one
\* wider than the atlas.
GlyphImage(key) ==
    CASE key = 1 -> NoImage
      [] key = 2 -> [width |-> 0, height |-> 0]
      [] key = 3 -> [width |-> 1, height |-> 1]
      [] key = 4 -> [width |-> AtlasSide, height |-> 1]
      [] key = 5 -> [width |-> AtlasSide, height |-> AtlasSide]
      [] OTHER -> [width |-> AtlasSide + 1, height |-> 1]

\* `x as f32` for a u32: exact below 2^24, else rounded to the 24-bit
\* significand, ties to even
AsF32(n) ==
    IF n < 16777216 THEN n
    ELSE LET ulp == CHOOSE p \in {2, 4, 8, 16, 32, 64, 128, 256} :
                        n \div p < 16777216 /\ n \div (p \div 2) >= 16777216
             down == (n \div ulp) * ulp
             rest == n - down
         IN  IF 2 * rest < ulp THEN down
             ELSE IF 2 * rest > ulp THEN down + ulp
             ELSE IF (down \div ulp) % 2 = 0 THEN down ELSE down + ulp

\* etagere::Size::new(width.max(1), height.max(1))
AllocSize(image) ==
    [w |-> IF image.width > 1 THEN image.width ELSE 1,
     h |-> IF image.height > 1 THEN image.height ELSE 1]

\* area of the live allocations
RECURSIVE PackerArea(_, _)
PackerArea(packer, ids) ==
    IF ids = {} THEN 0
    ELSE LET id == CHOOSE x \in ids : TRUE
         IN  packer[id].w * packer[id].h + PackerArea(packer, ids \ {id})

\* BucketedAtlasAllocator::allocate: every outcome it can have
PackerAllocate(packer, size) ==
    LET fits == /\ size.w <= AtlasSide /\ size.h <= AtlasSide
                /\ PackerArea(packer, DOMAIN packer) + size.w * size.h
                        <= AtlasSide * AtlasSide
        id == CHOOSE x \in 1 .. Cardinality(DOMAIN packer) + 1 :
                    /\ x \notin DOMAIN packer
                    /\ \A y \in 1 .. x - 1 : y \in DOMAIN packer
        some == [ok |-> TRUE, id |-> id, packer |-> (id :> size) @@ packer]
        none == [ok |-> FALSE, id |-> 0, packer |-> packer]
    IN  IF ~fits THEN {none}
        ELSE IF DOMAIN packer = {} THEN {some}
        ELSE {some, none}

\* BucketedAtlasAllocator::deallocate
PackerDeallocate(packer, id) == [x \in DOMAIN packer \ {id} |-> packer[x]]

\* the keys of the LruCache
LruKeys(cached) == {cached[i].key : i \in DOMAIN cached}

\* LruCache::pop
LruPop(cached, key) == SelectSeq(cached, LAMBDA entry : entry.key # key)

\* variant: promote leaves the order as it is
LruPromoteStays(cached, key) == cached

\* LruCache::promote: the entry of the key, if any, becomes most recently used
LruPromote(cached, key) ==
    LruPop(cached, key) \o SelectSeq(cached, LAMBDA entry : entry.key = key)

\* LruCache::put on an unbounded cache
LruPut(cached, key, data) == Append(LruPop(cached, key), [key |-> key, data |-> data])

\* variant: free_space evicts the least recently used entry even when it
\* is in use
FreeSpaceIgnoresInUse(atlas) ==
    IF atlas.cached_glyphs = <<>>
    THEN [result |-> "LruStorageError", atlas |-> atlas, evicted |-> 0]
    ELSE LET lru == Head(atlas.cached_glyphs)
         IN  [result |-> "Ok",
              atlas |-> [atlas EXCEPT
                   !.packer = PackerDeallocate(@, lru.data.alloc_id),
                   !.cached_glyphs = LruPop(Tail(@), lru.key)],
              evicted |-> lru.key]

\* variant: free_space removes the entry and leaves its rectangle allocated
FreeSpaceKeepsRectangle(atlas) ==
    IF atlas.cached_glyphs = <<>>
    THEN [result |-> "LruStorageError", atlas |-> atlas, evicted |-> 0]
    ELSE LET lru == Head(atlas.cached_glyphs)
         IN  IF lru.key \in atlas.glyphs_in_use
             THEN [result |-> "OutOfSpace", atlas |-> atlas, evicted |-> 0]
             ELSE [result |-> "Ok",
                   atlas |-> [atlas EXCEPT !.cached_glyphs = LruPop(Tail(@), lru.key)],
                   evicted |-> lru.key]

\* variant: free_space reports success without evicting
FreeSpaceEvictsNothing(atlas) ==
    IF atlas.cached_glyphs = <<>>
    THEN [result |-> "LruStorageError", atlas |-> atlas, evicted |-> 0]
    ELSE LET lru == Head(atlas.cached_glyphs)
         IN  IF lru.key \in atlas.glyphs_in_use
             THEN [result |-> "OutOfSpace", atlas |-> atlas, evicted |-> 0]
             ELSE [result |-> "Ok", atlas |-> atlas, evicted |-> lru.key]

\* free_space
FreeSpace(atlas) ==
    IF atlas.cached_glyphs = <<>>
    THEN [result |-> "LruStorageError", atlas |-> atlas, evicted |-> 0]
    ELSE LET lru == Head(atlas.cached_glyphs)
         IN  IF lru.key \in atlas.glyphs_in_use
             THEN [result |-> "OutOfSpace", atlas |-> atlas, evicted |-> 0]
             ELSE [result |-> "Ok",
                   atlas |-> [atlas EXCEPT
                        !.packer = PackerDeallocate(@, lru.data.alloc_id),
                        !.cached_glyphs = LruPop(Tail(@), lru.key)],
                   evicted |-> lru.key]

\* cache_glyph: the allocate / free_space loop, then the entry put into the
\* LRU; `evicted` collects the keys free_space removed on the way
RECURSIVE CacheGlyph(_, _, _, _)
CacheGlyph(atlas, key, image, evicted) ==
    UNION {
        IF a.ok
        THEN LET data == [alloc_id |-> a.id, width |-> AsF32(image.width),
                          height |-> AsF32(image.height)]
             IN  {[result |-> "Ok",
                   atlas |-> [atlas EXCEPT
                        !.packer = a.packer,
                        !.cached_glyphs = LruPut(@, key, data)],
                   evicted |-> evicted]}
        ELSE LET f == FreeSpace(atlas)
             IN  IF f.result # "Ok"
                 THEN {[result |-> f.result, atlas |-> atlas, evicted |-> evicted]}
                 ELSE CacheGlyph(f.atlas, key, image, Append(evicted, f.evicted))
        : a \in PackerAllocate(atlas.packer, AllocSize(image))}

\* variant: use_glyph marks the key in use whatever the outcome
UseGlyphMarksFailed(atlas, key) ==
    LET used(a) == [a EXCEPT !.cached_glyphs = LruPromote(@, key),
                             !.glyphs_in_use = @ \cup {key}]
    IN  IF key \in LruKeys(atlas.cached_glyphs)
        THEN {[result |-> "Ok", atlas |-> used(atlas), evicted |-> <<>>,
               rasterized |-> FALSE]}
        ELSE IF GlyphImage(key) = NoImage
        THEN {[result |-> "NoGlyphImage", atlas |-> used(atlas), evicted |-> <<>>,
               rasterized |-> TRUE]}
        ELSE {[result |-> c.result, atlas |-> used(c.atlas),
               evicted |-> c.evicted, rasterized |-> TRUE]
              : c \in CacheGlyph(atlas, key, GlyphImage(key), <<>>)}

\* use_glyph: every outcome it can have, with whether it rasterized the key
UseGlyph(atlas, key) ==
    LET used(a) == [a EXCEPT !.cached_glyphs = LruPromote(@, key),
                             !.glyphs_in_use = @ \cup {key}]
    IN  IF key \in LruKeys(atlas.cached_glyphs)
        THEN {[result |-> "Ok", atlas |-> used(atlas), evicted |-> <<>>,
               rasterized |-> FALSE]}
        ELSE IF GlyphImage(key) = NoImage
        THEN {[result |-> "NoGlyphImage", atlas |-> atlas, evicted |-> <<>>,
               rasterized |-> TRUE]}
        ELSE {[result |-> c.result,
               atlas |-> IF c.result = "Ok" THEN used(c.atlas) ELSE c.atlas,
               evicted |-> c.evicted, rasterized |-> TRUE]
              : c \in CacheGlyph(atlas, key, GlyphImage(key), <<>>)}

\* variant: the entry handed out reports its width as its height
GetGlyphDataSquare(atlas, key) ==
    LET hit == SelectSeq(atlas.cached_glyphs, LAMBDA entry : entry.key = key)
    IN  [found |-> hit # <<>>,
         data |-> IF hit # <<>> THEN [hit[1].data EXCEPT !.height = hit[1].data.width]
                  ELSE [alloc_id |-> 0, width |-> 0, height |-> 0],
         atlas |-> [atlas EXCEPT !.cached_glyphs = LruPromote(@, key)]]

\* get_glyph_data: LruCache::get, which hands out the entry of the key and
\* makes it most recently used
GetGlyphData(atlas, key) ==
    LET hit == SelectSeq(atlas.cached_glyphs, LAMBDA entry : entry.key = key)
    IN  [found |-> hit # <<>>,
         data |-> IF hit # <<>> THEN hit[1].data
                  ELSE [alloc_id |-> 0, width |-> 0, height |-> 0],
         atlas |-> [atlas EXCEPT !.cached_glyphs = LruPromote(@, key)]]

\* post_render_trim
PostRenderTrim(atlas) == [atlas EXCEPT !.glyphs_in_use = {}]

\* ------------------------------------------------------------------------
\* TextAtlas on its own: use_glyph, get_glyph_data and post_render_trim
\* called in any order with any key
\* ------------------------------------------------------------------------

\* no battle and no menu
NoBattle ==
    /\ friendly = {} /\ enemy = {}
    /\ speed = <<>> /\ actions = <<>>
    /\ battle_state = "Initializing"
    /\ ui_menus = <<>>
    /\ current_character = Dangling
    /\ turn_order = <<>>
    /\ world = <<>> /\ meta = <<>> /\ free = <<>>
    /\ panicked = "none"
    /\ last_tick = NoTick
    /\ round = NoRound

battle_vars ==
    <<friendly, enemy, speed, actions, battle_state, ui_menus, current_character,
      turn_order, world, meta, free, panicked, last_tick, round>>

InitAtlas ==
    /\ NoBattle
    /\ NoInput
    /\ NoAtlas
    /\ NoRender
    /\ last_call = NoCall

UseGlyphCall(key) ==
    /\ \E r \in UseGlyph(text_atlas, key) :
            /\ text_atlas' = r.atlas
            /\ used_ok' = IF r.result = "Ok" THEN used_ok \cup {key} ELSE used_ok
            /\ last_call' = [fn |-> "use_glyph", key |-> key, result |-> r.result,
                             evicted |-> r.evicted, rasterized |-> r.rasterized]
    /\ UNCHANGED <<battle_vars, input_vars, render_vars>>

GetGlyphDataCall(key) ==
    /\ LET r == GetGlyphData(text_atlas, key)
       IN  /\ text_atlas' = r.atlas
           /\ last_call' = [fn |-> "get_glyph_data", key |-> key, found |-> r.found,
                            width |-> r.data.width, height |-> r.data.height]
    /\ UNCHANGED <<battle_vars, input_vars, used_ok, render_vars>>

PostRenderTrimCall ==
    /\ text_atlas' = PostRenderTrim(text_atlas)
    /\ used_ok' = {}
    /\ last_call' = [fn |-> "post_render_trim"]
    /\ UNCHANGED <<battle_vars, input_vars, render_vars>>

NextAtlas ==
    \/ \E key \in Glyphs : UseGlyphCall(key)
    \/ \E key \in Glyphs : GetGlyphDataCall(key)
    \/ PostRenderTrimCall

SpecAtlas == InitAtlas /\ [][NextAtlas]_vars

\* ------------------------------------------------------------------------
\* The atlas over frames: Renderer::tick, for the glyphs the frame's text is
\* laid out with, whether the text is rebuilt, and whether the surface hands
\* out a frame
\* ------------------------------------------------------------------------

\* the first pass of text_shared::prep: use_glyph for every glyph in layout
\* order, unimplemented!() at the first error
RECURSIVE PrepUseGlyphs(_, _, _)
PrepUseGlyphs(atlas, glyphs, used) ==
    IF glyphs = <<>> THEN {[atlas |-> atlas, used |-> used, panic |-> "none"]}
    ELSE UNION {
            IF r.result # "Ok"
            THEN {[atlas |-> r.atlas, used |-> used, panic |-> "unimplemented"]}
            ELSE PrepUseGlyphs(r.atlas, Tail(glyphs), used \cup {Head(glyphs)})
            : r \in UseGlyph(atlas, Head(glyphs))}

\* the second pass of text_shared::prep when a line changed:
\* get_glyph_data(..).unwrap() for every glyph
RECURSIVE PrepGetGlyphs(_, _)
PrepGetGlyphs(atlas, glyphs) ==
    IF glyphs = <<>> THEN [atlas |-> atlas, panic |-> "none"]
    ELSE LET r == GetGlyphData(atlas, Head(glyphs))
         IN  IF ~r.found THEN [atlas |-> r.atlas, panic |-> "unwrap_none"]
             ELSE PrepGetGlyphs(r.atlas, Tail(glyphs))

\* Renderer::render, as far as the atlas goes: post_render_trim after the
\* submission, unless get_current_texture failed and the frame is skipped
Render(atlas, acquired) == IF acquired THEN PostRenderTrim(atlas) ELSE atlas

\* Renderer::tick: update, then render
RendererTick(glyphs, rebuild, acquired) ==
    /\ panicked = "none"
    /\ \E u \in PrepUseGlyphs(text_atlas, glyphs, used_ok) :
            LET g == IF u.panic = "none" /\ rebuild THEN PrepGetGlyphs(u.atlas, glyphs)
                     ELSE [atlas |-> u.atlas, panic |-> u.panic]
            IN  IF g.panic # "none"
                THEN /\ panicked' = g.panic
                     /\ text_atlas' = g.atlas
                     /\ used_ok' = u.used
                     /\ last_call' = [fn |-> "renderer_tick", trims |-> 0]
                ELSE /\ text_atlas' = Render(g.atlas, acquired)
                     /\ used_ok' = IF acquired THEN {} ELSE u.used
                     /\ last_call' = [fn |-> "renderer_tick",
                                      trims |-> IF acquired THEN 1 ELSE 0]
                     /\ UNCHANGED panicked
    /\ UNCHANGED <<config, battle_state, ui_menus, current_character, turn_order,
                   world, meta, free, last_tick, round, input_vars, render_vars>>

NextFrame ==
    \E glyphs \in SeqsUpTo(Glyphs, MaxFrameGlyphs), rebuild \in BOOLEAN,
       acquired \in BOOLEAN :
        RendererTick(glyphs, rebuild, acquired)

SpecFrame == InitAtlas /\ [][NextFrame]_vars

\* ------------------------------------------------------------------------
\* Properties
\* ------------------------------------------------------------------------

Range(s) == {s[i] : i \in DOMAIN s}

IsPermutation(q, S) == Len(q) = Cardinality(S) /\ Range(q) = S

\* the UiMenus of the current WaitingForInput state
Menus == ui_menus[1]

\* the menu entities a UiMenus holds
MenuEntities(menus) == {menus.action_menu} \cup Range(menus.target_menu)

\* C1: start_round completes for every roster and every speed stats, and
\* the queue it leaves is a permutation of friendly \cup enemy.
C1_StartRoundPermutes ==
    last_tick.arm = "StartingRound" =>
        /\ panicked = "none"
        /\ battle_state = "StartingTurn"
        /\ IsPermutation(turn_order, Roster)

\* C2: within a round the characters that became current are, in order,
\* the front of the turn order start_round built, the queue holds the rest
\* of it, the order is a permutation of the roster, and the state is
\* StartingRound again only when every member of the order has had its turn.
C2_TurnsFollowRoundOrder ==
    panicked # "empty_range" =>
        /\ round.order = round.turns \o turn_order
        /\ round.turns # <<>> => current_character = round.turns[Len(round.turns)]
        /\ battle_state \in {"StartingTurn", "WaitingForInput"} =>
                IsPermutation(round.order, Roster)
        /\ battle_state = "StartingRound" =>
                turn_order = <<>> /\ round.turns = round.order

C2_Witness ==
    /\ battle_state = "StartingRound"
    /\ Len(round.turns) = 2
    /\ friendly # {} /\ enemy # {}

\* C3 as stated: a tick of WaitingForInput in which the menu reports "turn
\* resolved" despawns the menu's entities and ends in StartingTurn.
C3_ResolvedEndsInStartingTurn ==
    (last_tick.arm = "WaitingForInput" /\ last_tick.output = "SkipTurn") =>
        battle_state = "StartingTurn"

\* C3 amended: such a tick despawns the menu's entities and runs start_turn
\* itself: it ends in StartingRound when the queue was empty, and else with
\* the queue's front popped and made current, in WaitingForInput under a
\* menu of that character unless that start_turn panicked.
C3_ResolvedRunsStartTurn ==
    [][(battle_state = "WaitingForInput" /\ panicked = "none"
            /\ last_tick'.arm = "WaitingForInput" /\ last_tick'.output = "SkipTurn") =>
        /\ MenuEntities(Menus) \cap DOMAIN world' = {}
        /\ battle_state' # "StartingTurn"
        /\ IF turn_order = <<>>
           THEN battle_state' = "StartingRound" /\ turn_order' = <<>>
           ELSE /\ turn_order' = Tail(turn_order)
                /\ current_character' = Head(turn_order)
                /\ panicked' = "none" =>
                        /\ battle_state' = "WaitingForInput"
                        /\ ui_menus'[1].current_character = Head(turn_order)]_vars

C3_Witness ==
    /\ last_tick.arm = "WaitingForInput" /\ last_tick.output = "SkipTurn"
    /\ battle_state = "WaitingForInput"

\* what C4 says of a StartingTurn step whose popped character gets a menu
StartedTurn(next_character) ==
    /\ current_character' = next_character
    /\ battle_state' = "WaitingForInput"
    /\ Len(ui_menus') = 1
    /\ ui_menus'[1].target_menu = <<>>
    /\ ui_menus'[1].action_menu \in DOMAIN world' \ DOMAIN world
    /\ DOMAIN world' = DOMAIN world \cup {ui_menus'[1].action_menu}

\* C4 as stated: a StartingTurn step on an empty queue goes to StartingRound
\* and keeps the current character; on any other queue it removes the front,
\* makes it current and enters WaitingForInput with a newly spawned action
\* menu and no target menu.
C4_StartTurnAlwaysOpensMenu ==
    [][(battle_state = "StartingTurn" /\ panicked = "none") =>
        IF turn_order = <<>>
        THEN battle_state' = "StartingRound" /\ turn_order' = <<>>
             /\ current_character' = current_character
        ELSE turn_order' = Tail(turn_order) /\ StartedTurn(Head(turn_order))]_vars

\* C4 amended: as stated when the popped character has at least one action;
\* when it has none the front is removed and made current, and the step
\* panics on the failed menu construction, still in StartingTurn.
C4_StartTurnStep ==
    [][(battle_state = "StartingTurn" /\ panicked = "none") =>
        IF turn_order = <<>>
        THEN battle_state' = "StartingRound" /\ turn_order' = <<>>
             /\ current_character' = current_character
        ELSE /\ turn_order' = Tail(turn_order)
             /\ IF actions[Head(turn_order)] # <<>>
                THEN StartedTurn(Head(turn_order)) /\ panicked' = "none"
                ELSE /\ current_character' = Head(turn_order)
                     /\ panicked' = "unwrap_err"
                     /\ battle_state' = "StartingTurn"
                     /\ world' = world]_vars

C4_Witness ==
    /\ last_tick.arm = "StartingTurn"
    /\ battle_state = "WaitingForInput"
    /\ turn_order # <<>>
    /\ Menus.action_menu \in DOMAIN world

\* C5: after a tick in which the turn resolves, neither the action menu
\* entity nor the target menu entity of that turn is in the world.
C5_MenusDroppedTogether ==
    [][(battle_state = "WaitingForInput" /\ panicked = "none"
            /\ last_tick'.arm = "WaitingForInput" /\ last_tick'.output = "SkipTurn") =>
        /\ Menus.action_menu \notin DOMAIN world'
        /\ \A t \in Range(Menus.target_menu) : t \notin DOMAIN world']_vars

\* a turn resolved from the target menu: every action of the character
\* needs a target
C5_Witness ==
    /\ last_tick.arm = "WaitingForInput" /\ last_tick.output = "SkipTurn"
    /\ current_character \in Roster
    /\ \A i \in DOMAIN actions[current_character] :
            GetAction(actions[current_character][i]).target.kind \notin {"None", "Caster"}
    /\ Cardinality(DOMAIN world) <= 1

\* the target policy of the action the action menu highlights once the
\* up/down keys among `keys` have moved its selection
HighlightedPolicy(keys) ==
    LET ui == world[Menus.action_menu]
        moved == ui.selected + (IF "ArrowDown" \in keys THEN 1 ELSE 0)
                             - (IF "ArrowUp" \in keys THEN 1 ELSE 0)
        index == IF moved < 0 THEN 0
                 ELSE IF moved > Len(ui.options) - 1 THEN Len(ui.options) - 1
                 ELSE moved
    IN  GetAction(actions[Menus.current_character][index + 1]).target

TargetOptions ==
    IF Menus.target_menu = <<>> THEN {}
    ELSE Range(world[Menus.target_menu[1]].options)

Names(S) == {CharName(c) : c \in S}

\* the caster's own roster and the one opposing it
OwnRoster(caster) == IF caster \in friendly THEN friendly ELSE enemy
OpposingRoster(caster) == IF caster \in friendly THEN enemy ELSE friendly

\* C7: spawn_target_menu offers the target set of the table: Any gives
\* friendly \cup enemy and Friendly the caster's own roster, both without the
\* caster unless can_target_caster; Enemy gives the friendly roster to a
\* friendly caster and the enemy roster to an enemy caster.
C7_TargetSetTable ==
    (last_call.fn = "spawn_target_menu"
            /\ last_call.target.kind \in {"Any", "Friendly", "Enemy"}) =>
        LET caster == Menus.current_character
            policy == last_call.target
            unless_allowed(S) == IF policy.can_target_caster THEN S ELSE S \ {caster}
            expected ==
                CASE policy.kind = "Any" -> unless_allowed(friendly \cup enemy)
                  [] policy.kind = "Friendly" -> unless_allowed(OwnRoster(caster))
                  [] policy.kind = "Enemy" ->
                        IF caster \in friendly THEN friendly ELSE enemy
        IN  /\ TargetOptions = Names(expected)
            /\ last_call.ok = (expected # {})
            /\ Menus.target_menu # <<>> =>
                    Len(world[Menus.target_menu[1]].options) = Cardinality(expected)

C7_Witness ==
    /\ last_call.fn = "spawn_target_menu"
    /\ last_call.target = TargetFriendly(FALSE)
    /\ Menus.current_character \in enemy
    /\ TargetOptions = Names(enemy \ {Menus.current_character})
    /\ Cardinality(TargetOptions) = 2

\* C8: for policy Enemy the target set is the roster opposing the caster.
C8_EnemyTargetsOpposingRoster ==
    (last_call.fn = "spawn_target_menu" /\ last_call.target.kind = "Enemy") =>
        TargetOptions = Names(OpposingRoster(Menus.current_character))

\* C9: on a menu of N >= 1 options every up/down press is processed and
\* leaves the selected index in 0 .. N-1; a down press at N-1 leaves it at
\* N-1 and an up press at 0 leaves it at 0.
C9_SelectionClamped ==
    [][\A keys \in SUBSET {"ArrowUp", "ArrowDown"} :
        ProcessInputCall(keys) =>
            LET n == Len(world[MenuEntity].options)
                before == world[MenuEntity].selected
                after == world'[MenuEntity].selected
            IN  /\ panicked' = "none"
                /\ after \in 0 .. n - 1
                /\ (keys = {"ArrowDown"} /\ before = n - 1) => after = n - 1
                /\ (keys = {"ArrowUp"} /\ before = 0) => after = 0]_vars

\* C10 as stated: one call of process_input gives at most one of a
\* selection-index change, Select, Forward and Back.
C10_AtMostOneLogicalAction ==
    last_call.fn = "process_input" => ~(last_call.moved /\ last_call.action # "None")

\* C10 amended: one call returns at most one of Select, Forward and Back,
\* Enter before ArrowRight before ArrowLeft, and moves the selection only
\* when exactly one of ArrowUp and ArrowDown is among the keys, whatever it
\* returns.
C10_OneMenuActionBesideMove ==
    [][\A keys \in KeySets :
        (ProcessInputCall(keys) /\ panicked' = "none") =>
            /\ last_call'.action =
                    (IF "Enter" \in keys THEN "Select"
                     ELSE IF "ArrowRight" \in keys THEN "Forward"
                     ELSE IF "ArrowLeft" \in keys THEN "Back"
                     ELSE "None")
            /\ last_call'.moved => ("ArrowUp" \in keys) # ("ArrowDown" \in keys)]_vars

C10_Witness ==
    /\ last_call.fn = "process_input"
    /\ last_call.moved
    /\ last_call.action = "Select"
    /\ panicked = "none"

\* C11: a key is reported as newly pressed only in the tick after it went
\* from up to down: whatever Input.just_pressed holds went down since the
\* latest tick, so a key that stays down is reported once.
C11_HeldKeyReportedOnce == just_pressed \subseteq fresh

\* C12: a tick of WaitingForInput that finds no key newly pressed leaves the
\* battle state, the turn-order queue, the current character, the menus and
\* their entities and every menu's selected index as they were.
C12_IdleTickChangesNothing ==
    [][(battle_state = "WaitingForInput" /\ panicked = "none"
            /\ TickWaitingForInput({})) =>
        /\ UNCHANGED <<battle_state, turn_order, current_character, ui_menus, world>>
        /\ panicked' = "none"
        /\ last_tick'.output = "None"]_vars

\* an idle tick in front of a target menu whose selection has moved
C12_Witness ==
    /\ last_tick.arm = "WaitingForInput" /\ last_tick.idle
    /\ battle_state = "WaitingForInput"
    /\ Menus.target_menu # <<>>
    /\ world[Menus.target_menu[1]].selected = 1

\* C13: a tick whose keys give Forward or Select on the action menu while
\* the highlighted action needs a target and has no eligible target spawns
\* no entity, leaves target_menu absent, reports "no decision yet" and
\* leaves the battle state, the queue and the current character unchanged.
C13_NoTargetsSilentlyFails ==
    [][\A keys \in KeySets :
        (/\ battle_state = "WaitingForInput" /\ panicked = "none"
         /\ Menus.target_menu = <<>>
         /\ ("Enter" \in keys \/ "ArrowRight" \in keys)
         /\ HighlightedPolicy(keys).kind \in {"Any", "Friendly", "Enemy"}
         /\ EligibleTargets(HighlightedPolicy(keys), Menus.current_character,
                            friendly, enemy) = {}
         /\ TickWaitingForInput(keys)) =>
            /\ last_tick'.output = "None"
            /\ panicked' = "none"
            /\ DOMAIN world' = DOMAIN world
            /\ ui_menus'[1].target_menu = <<>>
            /\ ui_menus'[1].action_menu = Menus.action_menu
            /\ UNCHANGED <<battle_state, turn_order, current_character, meta, free>>]_vars

\* Select or Forward by a lone character none of whose actions has a target
C13_Witness ==
    /\ last_tick.arm = "WaitingForInput" /\ last_tick.output = "None"
    /\ last_tick.action \in {"Select", "Forward"}
    /\ battle_state = "WaitingForInput"
    /\ Roster = {current_character}
    /\ Range(actions[current_character]) = DOMAIN OtherActions
    /\ Menus.target_menu = <<>>
    /\ world[Menus.action_menu].selected = 1

\* C14: a tick whose keys give Back while a target menu exists despawns the
\* target menu entity and clears target_menu, keeps the action menu entity
\* and its Ui3d, and keeps WaitingForInput, the current character and the
\* queue; the tick after it runs process_input on the action menu.
C14_BackClosesTargetMenu ==
    [][/\ \A keys \in KeySets :
            (/\ battle_state = "WaitingForInput" /\ panicked = "none"
             /\ Menus.target_menu # <<>>
             /\ "ArrowLeft" \in keys /\ "Enter" \notin keys /\ "ArrowRight" \notin keys
             /\ TickWaitingForInput(keys)) =>
                /\ panicked' = "none"
                /\ DOMAIN world' = DOMAIN world \ {Menus.target_menu[1]}
                /\ ui_menus'[1].target_menu = <<>>
                /\ ui_menus'[1].action_menu = Menus.action_menu
                /\ world'[Menus.action_menu] = world[Menus.action_menu]
                /\ UNCHANGED <<battle_state, current_character, turn_order>>
       /\ (/\ last_tick.menu = "target" /\ last_tick.action = "Back"
           /\ Tick) =>
                /\ last_tick'.arm = "WaitingForInput"
                /\ last_tick'.menu = "action"]_vars

\* the tick after a Back on the target menu, run on the action menu
C14_Witness ==
    /\ last_tick.menu = "target" /\ last_tick.action = "Back"
    /\ battle_state = "WaitingForInput"
    /\ Menus.target_menu = <<>>
    /\ world[Menus.action_menu].selected = 1
    /\ Cardinality(DOMAIN world) = 1

\* the keys of the LRU, least recently used first
CachedOrder(atlas) == [i \in DOMAIN atlas.cached_glyphs |-> atlas.cached_glyphs[i].key]

CachedKeys(atlas) == Range(CachedOrder(atlas))

\* C15: whatever a call removes from the glyph cache was, when removed, the
\* least recently used entry and not in use this frame; a call that fails
\* with OutOfSpace leaves the in-use entry it stopped at cached, as the least
\* recently used one; and every key use_glyph succeeded for since the latest
\* post_render_trim is cached.
C15_EvictsOnlyUnusedLru ==
    [][LET before == CachedOrder(text_atlas)
           after == CachedOrder(text_atlas')
           gone == CachedKeys(text_atlas) \ CachedKeys(text_atlas')
       IN  /\ gone \cap text_atlas.glyphs_in_use = {}
           /\ gone = Range(SubSeq(before, 1, Cardinality(gone)))
           /\ (last_call'.fn = "use_glyph" /\ last_call'.result = "OutOfSpace") =>
                    /\ after = SubSeq(before, Cardinality(gone) + 1, Len(before))
                    /\ after # <<>>
                    /\ after[1] \in text_atlas'.glyphs_in_use
           /\ used_ok' \subseteq CachedKeys(text_atlas')]_vars

\* a use_glyph that evicted an unused entry and then stopped at one in use
C15_Witness ==
    /\ last_call.fn = "use_glyph" /\ last_call.result = "OutOfSpace"
    /\ Len(last_call.evicted) = 1
    /\ used_ok # {}
    /\ CachedOrder(text_atlas)[1] \in used_ok

\* the AllocIds held by the entries of the LRU
CachedAllocs(atlas) ==
    {atlas.cached_glyphs[i].data.alloc_id : i \in DOMAIN atlas.cached_glyphs}

\* C16: after every call the allocation handles of the LRU's entries are
\* exactly the live allocations of the packer, one entry per allocation and
\* one per key, and a step that removes entries frees their rectangles: the
\* handle of a removed entry is live afterwards only if the allocator handed
\* it out again, to the entry of the key cached in that step.
C16_LruMatchesPacker ==
    [][/\ CachedAllocs(text_atlas') = DOMAIN text_atlas'.packer
       /\ Cardinality(CachedAllocs(text_atlas')) = Len(text_atlas'.cached_glyphs)
       /\ Cardinality(CachedKeys(text_atlas')) = Len(text_atlas'.cached_glyphs)
       /\ \A i \in DOMAIN text_atlas.cached_glyphs :
            LET entry == text_atlas.cached_glyphs[i]
            IN  entry.key \notin CachedKeys(text_atlas') =>
                    \/ entry.data.alloc_id \notin DOMAIN text_atlas'.packer
                    \/ \E j \in DOMAIN text_atlas'.cached_glyphs :
                            LET new == text_atlas'.cached_glyphs[j]
                            IN  /\ new.data.alloc_id = entry.data.alloc_id
                                /\ new.key \notin CachedKeys(text_atlas)]_vars

\* a use_glyph that evicted two entries and cached its key in their place
C16_Witness ==
    /\ last_call.fn = "use_glyph" /\ last_call.result = "Ok"
    /\ Len(last_call.evicted) = 2
    /\ Len(text_atlas.cached_glyphs) = 1
    /\ CachedAllocs(text_atlas) = DOMAIN text_atlas.packer

\* C17: get_glyph_data leaves the recency order of the cache, and with it
\* the entry evicted next, as it was.
C17_LookupKeepsRecency ==
    [][\A key \in Glyphs :
        GetGlyphDataCall(key) => CachedOrder(text_atlas') = CachedOrder(text_atlas)]_vars

\* C18: every frame, whether or not the surface handed out a frame, runs
\* post_render_trim once after its submission, so no key is marked in use
\* when the next frame starts.
C18_TrimEveryFrame ==
    (last_call.fn = "renderer_tick" /\ panicked = "none") =>
        /\ last_call.trims = 1
        /\ text_atlas.glyphs_in_use = {}

\* the data of every cached entry, by key
CachedData(atlas) ==
    [key \in CachedKeys(atlas) |->
        LET i == CHOOSE j \in DOMAIN atlas.cached_glyphs : atlas.cached_glyphs[j].key = key
        IN  atlas.cached_glyphs[i].data]

\* C19: use_glyph on a cached key succeeds without rasterizing, makes the key
\* the most recently used and marks it in use; the other entries keep their
\* order, and the cached keys, every entry's data and the packer are as
\* before.
C19_CachedGlyphOnlyPromoted ==
    [][\A key \in CachedKeys(text_atlas) :
        UseGlyphCall(key) =>
            LET before == CachedOrder(text_atlas)
                after == CachedOrder(text_atlas')
            IN  /\ last_call'.result = "Ok"
                /\ ~last_call'.rasterized
                /\ last_call'.evicted = <<>>
                /\ after = SelectSeq(before, LAMBDA k : k # key) \o <<key>>
                /\ text_atlas'.glyphs_in_use = text_atlas.glyphs_in_use \cup {key}
                /\ CachedData(text_atlas') = CachedData(text_atlas)
                /\ text_atlas'.packer = text_atlas.packer]_vars

\* a use_glyph that found its key cached behind two others, in a later frame
C19_Witness ==
    /\ last_call.fn = "use_glyph" /\ last_call.result = "Ok"
    /\ ~last_call.rasterized
    /\ Len(text_atlas.cached_glyphs) = 3
    /\ CachedOrder(text_atlas)[3] = last_call.key
    /\ text_atlas.glyphs_in_use = {last_call.key}
    /\ text_atlas.cached_glyphs[3].data.alloc_id = 1

\* C20: get_glyph_data for the key use_glyph has just cached finds an entry
\* whose width and height are the bitmap's; get_glyph_data for a key that a
\* call has just evicted finds nothing; and whenever get_glyph_data is
\* called it finds exactly the cached keys, each with its bitmap's width and
\* height.
C20_GlyphRoundTrip ==
    [][/\ (last_call'.fn = "use_glyph" /\ UseGlyphCall(last_call'.key)) =>
            /\ (last_call'.rasterized /\ last_call'.result = "Ok") =>
                    LET r == GetGlyphData(text_atlas', last_call'.key)
                        image == GlyphImage(last_call'.key)
                    IN  /\ r.found
                        /\ r.data.width = image.width
                        /\ r.data.height = image.height
            /\ \A i \in DOMAIN last_call'.evicted :
                    /\ last_call'.evicted[i] \in CachedKeys(text_atlas)
                    /\ last_call'.evicted[i] \notin text_atlas.glyphs_in_use
                    /\ ~GetGlyphData(text_atlas', last_call'.evicted[i]).found
       /\ \A key \in Glyphs :
            GetGlyphDataCall(key) =>
                /\ last_call'.found = (key \in CachedKeys(text_atlas))
                /\ last_call'.found =>
                        /\ last_call'.width = GlyphImage(key).width
                        /\ last_call'.height = GlyphImage(key).height]_vars

\* the atlas-wide glyph cached in place of two smaller ones it evicted: a
\* lookup of either of them finds nothing, a lookup of it finds its size
C20_Witness ==
    /\ last_call.fn = "use_glyph" /\ last_call.result = "Ok"
    /\ last_call.key = 5
    /\ Range(last_call.evicted) = {3, 4}
    /\ CachedOrder(text_atlas) = <<5>>
    /\ ~GetGlyphData(text_atlas, 3).found
    /\ GetGlyphData(text_atlas, 5).data.width = AtlasSide

\* C21: a use_glyph failure in a text block's preparation pass is handed to
\* the caller of the pass as an error outcome: the program keeps running.
C21_GlyphFailureReported ==
    last_call.fn = "renderer_tick" => panicked # "unimplemented"

\* ------------------------------------------------------------------------
\* Text preparation (renderer/src/text_shared.rs)
\* ------------------------------------------------------------------------

Blocks == 1 .. MaxBlocks

Colors == 0 .. MaxColor

\* the cache key the glyphs of the text blocks are shaped to: a 1x1 image
TextKeys == {3}

\* a laid-out glyph: its cache key and its colour override, an Option kept
\* as a sequence of at most one colour
TextGlyphs == {[key |-> k, color_opt |-> <<>>] : k \in TextKeys}

\* the layout runs of a freshly shaped text: one sequence of glyphs a line
TextLayouts == SeqsUpTo(SeqsUpTo(TextGlyphs, MaxLineGlyphs), MaxLines)

\* TextBufferLine::default
DefaultLine == [hash |-> 0, length |-> 0]

\* TextBuffer::new: the shaped buffer, the block's colour, no line recorded
TextBufferNew(layout, color) ==
    [buffer |-> layout, color |-> color, lines |-> <<>>]

RECURSIVE BitXor(_, _)
BitXor(a, b) ==
    IF a = 0 THEN b
    ELSE IF b = 0 THEN a
    ELSE ((a + b) % 2) + 2 * BitXor(a \div 2, b \div 2)

\* u64::rotate_left(5) at the width of the model
RotateLeft5(h) ==
    ((h * 32) % (2 ^ HashBits)) + (h \div (2 ^ (HashBits - 5)))

\* FxHasher::add_to_hash: rotate, xor the word in, multiply by the seed
\* (0x51_7c_c1_b7_27_22_0a_95, of which the model keeps the low byte)
FxAdd(h, word) == (BitXor(RotateLeft5(h), word) * 149) % (2 ^ HashBits)

\* variant: the colour override of a glyph is not looked at
GlyphColorOfBlock(glyph, color) == color

\* the colour of a glyph: its own if it has one, else the block's
GlyphColor(glyph, color) ==
    IF glyph.color_opt # <<>> THEN glyph.color_opt[1] ELSE color

\* the hash of one layout run: cache key and colour of every glyph in turn
RECURSIVE LineHash(_, _, _)
LineHash(h, glyphs, color) ==
    IF glyphs = <<>> THEN h
    ELSE LineHash(FxAdd(FxAdd(h, Head(glyphs).key),
                        GlyphColor(Head(glyphs), color)),
                  Tail(glyphs), color)

\* the entry of line `index` as the pass finds it, pushed if missing
LineEntry(text_buffer, index) ==
    IF Len(text_buffer.lines) < index THEN DefaultLine
    ELSE text_buffer.lines[index]

\* whether the pass finds the hash of line `index` changed
LineChanged(text_buffer, index) ==
    LineHash(0, text_buffer.buffer[index], text_buffer.color)
        # LineEntry(text_buffer, index).hash

\* TextBuffer.lines after the first pass of prep: an entry for every layout
\* run, hash and length rewritten where the hash differs; entries beyond
\* the last layout run stay
PrepLines(text_buffer) ==
    LET runs == Len(text_buffer.buffer)
        count == IF Len(text_buffer.lines) < runs THEN runs
                 ELSE Len(text_buffer.lines)
    IN  [index \in 1 .. count |->
            IF index > runs THEN text_buffer.lines[index]
            ELSE IF LineChanged(text_buffer, index)
            THEN [hash |-> LineHash(0, text_buffer.buffer[index],
                                    text_buffer.color),
                  length |-> Len(text_buffer.buffer[index])]
            ELSE LineEntry(text_buffer, index)]

\* the cache keys of a block's glyphs in layout order
RECURSIVE LayoutKeys(_)
LayoutKeys(layout) ==
    IF layout = <<>> THEN <<>>
    ELSE [i \in DOMAIN Head(layout) |-> Head(layout)[i].key]
            \o LayoutKeys(Tail(layout))

\* text_shared::prep: use_glyph for every glyph and the line diff, then the
\* vertices of every glyph if a line changed (Some), else None.  A panic
\* leaves the block as it was found: nothing reads it afterwards.
Prep(atlas, text_buffer, used) ==
    LET keys == LayoutKeys(text_buffer.buffer)
        rebuild_all_lines ==
            \E index \in DOMAIN text_buffer.buffer :
                LineChanged(text_buffer, index)
    IN  { LET g == IF u.panic = "none" /\ rebuild_all_lines
                   THEN PrepGetGlyphs(u.atlas, keys)
                   ELSE [atlas |-> u.atlas, panic |-> u.panic]
          IN  [atlas |-> g.atlas, used |-> u.used, panic |-> g.panic,
               text_buffer |-> IF u.panic = "none"
                               THEN [text_buffer EXCEPT
                                        !.lines = PrepLines(text_buffer)]
                               ELSE text_buffer,
               rebuild |-> rebuild_all_lines,
               vertices |-> IF rebuild_all_lines THEN Len(keys) ELSE 0]
          : u \in PrepUseGlyphs(atlas, keys, used) }

\* what a block shows: key and colour of every glyph, the colour being the
\* override where there is one and the block's colour elsewhere
Shown(text_buffer) ==
    [i \in DOMAIN text_buffer.buffer |->
        [j \in DOMAIN text_buffer.buffer[i] |->
            [key |-> text_buffer.buffer[i][j].key,
             color |-> IF text_buffer.buffer[i][j].color_opt = <<>>
                       THEN text_buffer.color
                       ELSE text_buffer.buffer[i][j].color_opt[1]]]]

\* the layouts a and b differ in the colour of exactly one glyph
OneColorApart(a, b) ==
    /\ Len(a) = Len(b)
    /\ \A i \in DOMAIN a : Len(a[i]) = Len(b[i])
    /\ \A i \in DOMAIN a : \A j \in DOMAIN a[i] : a[i][j].key = b[i][j].key
    /\ Cardinality({<<i, j>> \in (1 .. MaxLines + 1) \X (1 .. MaxLineGlyphs + 1) :
                        /\ i \in DOMAIN a
                        /\ j \in DOMAIN a[i]
                        /\ a[i][j].color # b[i][j].color}) = 1

\* history: what happened to block b since its previous pass
ChangeSince(b) ==
    IF text_seen[b] = <<>> THEN "first"
    ELSE IF text_seen[b][1] = Shown(text_blocks[b]) THEN "none"
    ELSE IF OneColorApart(text_seen[b][1], Shown(text_blocks[b]))
    THEN "one_color"
    ELSE "more"

InitText ==
    /\ NoBattle
    /\ NoInput
    /\ NoAtlas
    /\ NoPool
    /\ last_call = NoCall
    /\ text_blocks \in [Blocks -> {TextBufferNew(layout, color) :
                                    layout \in TextLayouts, color \in Colors}]
    /\ text_seen = [b \in Blocks |-> <<>>]

\* one preparation pass over block b
PrepCall(b) ==
    /\ panicked = "none"
    /\ \E r \in Prep(text_atlas, text_blocks[b], used_ok) :
            /\ text_atlas' = r.atlas
            /\ used_ok' = r.used
            /\ panicked' = r.panic
            /\ text_blocks' = [text_blocks EXCEPT ![b] = r.text_buffer]
            /\ text_seen' = [text_seen EXCEPT ![b] = <<Shown(text_blocks[b])>>]
            /\ last_call' = [fn |-> "prep", block |-> b, rebuild |-> r.rebuild,
                             vertices |-> r.vertices, change |-> ChangeSince(b)]
    /\ UNCHANGED <<config, battle_state, ui_menus, current_character, turn_order,
                   world, meta, free, last_tick, round, input_vars, pool_vars>>

\* the owner of block b gives glyph j of line i another colour override
SetGlyphColor(b, i, j, color_opt) ==
    /\ panicked = "none"
    /\ i \in DOMAIN text_blocks[b].buffer
    /\ j \in DOMAIN text_blocks[b].buffer[i]
    /\ color_opt # text_blocks[b].buffer[i][j].color_opt
    /\ text_blocks' =
            [text_blocks EXCEPT ![b].buffer[i][j].color_opt = color_opt]
    /\ last_call' = [fn |-> "set_color", block |-> b]
    /\ UNCHANGED <<battle_vars, input_vars, atlas_vars, text_seen, pool_vars>>

NextText ==
    \/ \E b \in Blocks : PrepCall(b)
    \/ \E b \in Blocks, i \in 1 .. MaxLines, j \in 1 .. MaxLineGlyphs,
          color_opt \in {<<>>} \cup {<<c>> : c \in Colors} :
            SetGlyphColor(b, i, j, color_opt)

SpecText == InitText /\ [][NextText]_vars

\* ------------------------------------------------------------------------
\* Text diffing
\* ------------------------------------------------------------------------

\* C22: a pass over a block whose glyphs and colours are those of its
\* previous pass returns no rebuild, whatever happened to the other blocks
\* in between; a pass over a block that differs from its previous pass in the
\* colour of exactly one glyph returns a rebuild; a pass touches the recorded
\* lines of no other block.
C22_RebuildOnlyOnChange ==
    [][\A b \in Blocks :
        (PrepCall(b) /\ panicked' = "none") =>
            /\ (ChangeSince(b) = "none" => ~last_call'.rebuild)
            /\ (ChangeSince(b) = "one_color" => last_call'.rebuild)
            /\ \A o \in Blocks \ {b} : text_blocks'[o] = text_blocks[o]]_vars

\* block 1 was prepared, one of its glyphs changed colour, block 2 was
\* prepared unchanged in between and reported no rebuild, and the pass over
\* block 1 has just reported a rebuild
C22_Witness ==
    /\ last_call.fn = "prep" /\ last_call.block = 1 /\ last_call.rebuild
    /\ last_call.change = "one_color"
    /\ panicked = "none"
    /\ text_seen[2] = <<Shown(text_blocks[2])>>
    /\ Len(text_blocks[1].buffer) = MaxLines
    /\ Len(text_blocks[1].lines) = MaxLines
    /\ \E i \in DOMAIN text_blocks[1].buffer :
        \E j \in DOMAIN text_blocks[1].buffer[i] :
            text_blocks[1].buffer[i][j].color_opt # <<>>

\* ------------------------------------------------------------------------
\* Instance buffers (renderer/src/tools.rs) and the sprite pools
\* (renderer/src/pipelines/texture_pipeline.rs, engine/src/renderer/pipelines)
\* ------------------------------------------------------------------------

\* InstanceBuffer::new: a GPU buffer that holds the data, `size` instances
NewInstanceBuffer(n) == [size |-> n, count |-> n]

\* variant: an update with no data leaves buffer and count as they are
UpdateInstanceBufferEmptyKeeps(buffer, n) ==
    IF n = 0
    THEN [buffer |-> buffer, replaced |-> FALSE]
    ELSE IF n <= buffer.count
    THEN [buffer |-> [buffer EXCEPT !.count = n], replaced |-> FALSE]
    ELSE [buffer |-> NewInstanceBuffer(n), replaced |-> TRUE]

\* update_instance_buffer: the buffer and its count afterwards, and whether
\* the GPU buffer was replaced by a new one
UpdateInstanceBuffer(buffer, n) ==
    IF n = 0
    THEN IF buffer.count # 0
         THEN [buffer |-> NewInstanceBuffer(0), replaced |-> TRUE]
         ELSE [buffer |-> buffer, replaced |-> FALSE]
    ELSE IF n <= buffer.count
    THEN [buffer |-> [buffer EXCEPT !.count = n], replaced |-> FALSE]
    ELSE [buffer |-> NewInstanceBuffer(n), replaced |-> TRUE]

TextureIds == 1 .. MaxTextures

\* the sprites of a frame folded by texture id: the instance count of every
\* texture id that has a sprite
SpriteRequests ==
    UNION {[ids -> 1 .. MaxInstances] : ids \in SUBSET TextureIds}

\* variant: no key leaves the pool
RemoveKeysNone(pool, keys) == pool

\* HashMap::remove for every key of `keys`
RemoveKeys(pool, keys) == [k \in DOMAIN pool \ keys |-> pool[k]]

\* instances.entry(id).and_modify(update).or_insert_with(new) for every
\* requested id
UpsertAll(pool, request) ==
    [k \in DOMAIN pool \cup DOMAIN request |->
        IF k \notin DOMAIN request THEN pool[k]
        ELSE IF k \in DOMAIN pool
        THEN UpdateInstanceBuffer(pool[k], request[k]).buffer
        ELSE NewInstanceBuffer(request[k])]

\* the keys whose GPU buffer an update of the pass replaced
ReplacedBy(pool, request) ==
    {k \in DOMAIN pool \cap DOMAIN request :
        UpdateInstanceBuffer(pool[k], request[k]).replaced}

\* what a preparation pass did, for the record of the latest call
PassRecord(fn, pool, request, after, wasted) ==
    [fn |-> fn, requested |-> request, before |-> pool,
     created |-> DOMAIN after \ DOMAIN pool,
     replaced |-> ReplacedBy(pool, request),
     released |-> DOMAIN pool \ DOMAIN after,
     wasted |-> wasted]

\* TextureRenderer::prep (renderer): previous starts as the keys of the
\* pool, loses every requested id, and what is left is removed
TextureRendererPrep(pool, request) ==
    LET previous_left == DOMAIN pool \ DOMAIN request
    IN  RemoveKeys(UpsertAll(pool, request), previous_left)

InitPools ==
    /\ NoBattle
    /\ NoInput
    /\ NoAtlas
    /\ NoText
    /\ last_call = NoCall
    /\ pipeline \in {"texture", "engine_texture", "ui3d"}
    /\ instances = <<>> /\ previous = {}
    /\ to_draw = <<>> /\ textures_to_add = {}

\* one frame's TextureRenderer::prep over a world with the given sprites
TexturePrepCall(request) ==
    /\ pipeline = "texture"
    /\ instances' = TextureRendererPrep(instances, request)
    /\ last_call' = PassRecord("texture_prep", instances, request, instances', 0)
    /\ UNCHANGED <<battle_vars, input_vars, atlas_vars, text_blocks, text_seen,
                   pipeline, previous, to_draw, textures_to_add>>

\* TexturePipeline::draw_texture (engine): one more instance of the texture
\* this frame, the texture remembered when it is the first
DrawTexture(id) ==
    /\ pipeline = "engine_texture"
    /\ panicked = "none"
    /\ IF id \in DOMAIN to_draw THEN to_draw[id] < MaxInstances ELSE TRUE
    /\ IF id \in DOMAIN to_draw
       THEN /\ to_draw' = [to_draw EXCEPT ![id] = @ + 1]
            /\ UNCHANGED textures_to_add
       ELSE /\ to_draw' = (id :> 1) @@ to_draw
            /\ textures_to_add' = textures_to_add \cup {id}
    /\ last_call' = [fn |-> "draw_texture", id |-> id]
    /\ UNCHANGED <<battle_vars, input_vars, atlas_vars, text_blocks, text_seen,
                   pipeline, instances, previous>>

\* TexturePipeline::prep (engine): to_draw is drained; every id met leaves
\* `previous` and is upserted, the argument of or_insert being built (its
\* texture taken out of textures_to_add, unwrapped) whether or not the key
\* is there; what is left of `previous` is removed; the ids met are the
\* next `previous`
EnginePrepCall ==
    /\ pipeline = "engine_texture"
    /\ panicked = "none"
    /\ IF DOMAIN to_draw \subseteq textures_to_add
       THEN /\ instances' = RemoveKeys(UpsertAll(instances, to_draw),
                                       previous \ DOMAIN to_draw)
            /\ previous' = DOMAIN to_draw
            /\ to_draw' = <<>>
            /\ textures_to_add' = textures_to_add \ DOMAIN to_draw
            /\ last_call' = PassRecord("engine_prep", instances, to_draw,
                                       instances',
                                       Cardinality(DOMAIN instances
                                                    \cap DOMAIN to_draw))
            /\ UNCHANGED panicked
       ELSE /\ panicked' = "unwrap_none"
            /\ last_call' = [fn |-> "engine_prep"]
            /\ UNCHANGED <<instances, previous, to_draw, textures_to_add>>
    /\ UNCHANGED <<config, battle_state, ui_menus, current_character, turn_order,
                   world, meta, free, last_tick, round, input_vars, atlas_vars,
                   text_blocks, text_seen, pipeline>>

\* ------------------------------------------------------------------------
\* The UI pool (renderer/src/pipelines/ui3d_pipeline.rs)
\* ------------------------------------------------------------------------

UiEntities == {[idx |-> i, gen |-> 0] : i \in 1 .. MaxUi}

\* the Ui3d components a frame's world may hold, by entity
UiRequests ==
    UNION {[es -> {NewUi3d(options) :
                    options \in UNION {[1 .. n -> {"Idle"}] : n \in 1 .. MaxUiOptions}}]
           : es \in SUBSET UiEntities}

\* the cache key glyphs are shaped to at the given metrics: the font size is
\* part of the key.  A 1x1 image at InsertMetrics, an AtlasSide x 1 image at
\* DefaultFontSize
MetricsKey(metrics) == IF metrics = InsertMetrics THEN 3 ELSE 4

\* the layout runs of a menu's text, the options joined by newlines: a line
\* for every option, one glyph standing for its characters
UiLayout(options, metrics) ==
    [i \in DOMAIN options |->
        <<[key |-> MetricsKey(metrics), color_opt |-> <<>>]>>]

\* TextBuffer::set_metrics: the same text shaped again
SetMetrics(text_buffer, metrics) ==
    [text_buffer EXCEPT !.buffer =
        [i \in DOMAIN text_buffer.buffer |->
            [j \in DOMAIN text_buffer.buffer[i] |->
                [text_buffer.buffer[i][j] EXCEPT !.key = MetricsKey(metrics)]]]]

\* insert_ui: the Ui3dData of a menu seen for the first time, its text
\* shaped at InsertMetrics in the default colour, its vertex buffer empty
InsertUi(ui) ==
    [text_buffer |-> TextBufferNew(UiLayout(ui.options, InsertMetrics), 0),
     vertex |-> NewInstanceBuffer(0)]

\* prep_text: text_shared::prep for the entities in query order, the vertex
\* buffer updated with the vertices of a rebuild
RECURSIVE PrepText(_, _, _, _, _)
PrepText(pool, atlas, used, order, replaced) ==
    IF order = <<>>
    THEN {[instances |-> pool, atlas |-> atlas, used |-> used,
           panic |-> "none", replaced |-> replaced]}
    ELSE LET e == Head(order)
         IN  UNION {
                IF r.panic # "none"
                THEN {[instances |-> pool, atlas |-> r.atlas, used |-> r.used,
                       panic |-> r.panic, replaced |-> replaced]}
                ELSE LET u == IF r.rebuild
                              THEN UpdateInstanceBuffer(pool[e].vertex, r.vertices)
                              ELSE [buffer |-> pool[e].vertex, replaced |-> FALSE]
                     IN  PrepText([x \in DOMAIN pool |->
                                        IF x = e
                                        THEN [text_buffer |-> r.text_buffer,
                                              vertex |-> u.buffer]
                                        ELSE pool[x]],
                                  r.atlas, r.used, Tail(order),
                                  IF u.replaced THEN replaced \cup {e}
                                  ELSE replaced)
                : r \in Prep(atlas, pool[e].text_buffer, used)}

\* prep_ui, as far as the pool goes: the text of every menu is shaped at
\* the menu's font size
PrepUi(pool, uis) ==
    [e \in DOMAIN pool |->
        IF e \in DOMAIN uis
        THEN [pool[e] EXCEPT !.text_buffer = SetMetrics(@, DefaultFontSize)]
        ELSE pool[e]]

\* Ui3dRenderer::prep: previous starts as the keys of the pool and loses
\* every entity met, an entity not in the pool is inserted; prep_text,
\* prep_ui; what is left of previous is removed
Ui3dRendererPrep(pool, uis, atlas, used, order) ==
    LET previous_left == DOMAIN pool \ DOMAIN uis
        inserted == [e \in DOMAIN pool \cup DOMAIN uis |->
                        IF e \in DOMAIN pool THEN pool[e] ELSE InsertUi(uis[e])]
    IN  {[instances |-> IF t.panic # "none" THEN t.instances
                        ELSE RemoveKeys(PrepUi(t.instances, uis), previous_left),
          atlas |-> t.atlas, used |-> t.used, panic |-> t.panic,
          replaced |-> t.replaced \cap DOMAIN pool]
         : t \in PrepText(inserted, atlas, used, order, {})}

\* one frame's Ui3dRenderer::prep over a world with the given menus, met in
\* the given order
Ui3dPrepCall(uis, order) ==
    /\ pipeline = "ui3d"
    /\ panicked = "none"
    /\ \E r \in Ui3dRendererPrep(instances, uis, text_atlas, used_ok, order) :
            /\ instances' = r.instances
            /\ text_atlas' = r.atlas
            /\ used_ok' = r.used
            /\ panicked' = r.panic
            /\ last_call' = [fn |-> "ui3d_prep", requested |-> uis,
                             before |-> instances,
                             created |-> DOMAIN r.instances \ DOMAIN instances,
                             replaced |-> r.replaced,
                             released |-> DOMAIN instances \ DOMAIN r.instances,
                             wasted |-> 0]
    /\ UNCHANGED <<config, battle_state, ui_menus, current_character, turn_order,
                   world, meta, free, last_tick, round, input_vars,
                   text_blocks, text_seen, pipeline, previous, to_draw,
                   textures_to_add>>

\* Renderer::render of a frame of menus: post_render_trim
Ui3dRenderCall ==
    /\ pipeline = "ui3d"
    /\ panicked = "none"
    /\ PostRenderTrimCall

NextPools ==
    \/ \E request \in SpriteRequests : TexturePrepCall(request)
    \/ \E id \in TextureIds : DrawTexture(id)
    \/ EnginePrepCall
    \/ \E uis \in UiRequests : \E order \in SeqsOf(DOMAIN uis) :
            Ui3dPrepCall(uis, order)
    \/ Ui3dRenderCall

SpecPools == InitPools /\ [][NextPools]_vars

\* ------------------------------------------------------------------------
\* Instance pools
\* ------------------------------------------------------------------------

\* the latest call was a preparation pass of a pool, and it returned
AfterPass ==
    /\ last_call.fn \in {"texture_prep", "engine_prep", "ui3d_prep"}
    /\ panicked = "none"

\* the latest call was a preparation pass of a sprite pool
AfterSpritePass == last_call.fn \in {"texture_prep", "engine_prep"}

C24_ReplacedOnlyBeyondCapacity ==
    (AfterPass /\ AfterSpritePass) =>
        \A k \in last_call.replaced :
            last_call.requested[k] > last_call.before[k].size

\* ------------------------------------------------------------------------
\* start_round on its own: the weighted draw, every roll recorded
\* ------------------------------------------------------------------------

\* variant: the first candidate is drawn whatever the roll
DrawnFirst(cw, roll) == 1

\* variant: the last candidate is drawn whatever the roll
DrawnLast(cw, roll) == Len(cw)

\* the scan of a draw: the first candidate at which the accumulated weight
\* exceeds the roll
Drawn(cw, roll) == FindDrawn(cw, roll, 1, 0)

\* variant: a single candidate is drawn like any other
OnlyOneNever(cw) == FALSE

\* character_weights.len() == 1
OnlyOne(cw) == Len(cw) = 1

\* the while loop of start_round with its draws: for every draw the roll,
\* the candidates and the remaining weight it found and the index it drew
RECURSIVE DrawSteps(_, _, _, _)
DrawSteps(cw, weight, order, draws) ==
    IF cw = <<>> THEN {[order |-> order, panic |-> "none", draws |-> draws]}
    ELSE IF OnlyOne(cw)
    THEN {[order |-> Append(order, cw[1].id), panic |-> "none", draws |-> draws]}
    ELSE IF weight = 0
    THEN {[order |-> order, panic |-> "empty_range", draws |-> draws]}
    ELSE UNION {
            LET i == Drawn(cw, roll)
            IN  DrawSteps(RemoveAt(cw, i), weight - cw[i].weight,
                          Append(order, cw[i].id),
                          Append(draws, [roll |-> roll, candidates |-> cw,
                                         weight |-> weight, index |-> i]))
            : roll \in 0 .. weight - 1}

InitDraw ==
    /\ \E nf \in 0 .. MaxDrawChars : \E ne \in 0 .. MaxDrawChars - nf :
            /\ friendly = 1 .. nf
            /\ enemy = nf + 1 .. nf + ne
    /\ speed \in [friendly \cup enemy -> 0 .. MaxDrawSpeed]
    /\ actions = [c \in friendly \cup enemy |-> <<>>]
    /\ battle_state = "StartingRound"
    /\ ui_menus = <<>>
    /\ current_character = Dangling
    /\ turn_order = <<>>
    /\ world = <<>> /\ meta = <<>> /\ free = <<>>
    /\ panicked = "none"
    /\ last_call = NoCall
    /\ last_tick = NoTick
    /\ round = NoRound
    /\ NoInput
    /\ NoAtlas
    /\ NoRender

\* start_round: the queue is cleared and refilled by the draw
StartRoundCall ==
    /\ panicked = "none"
    /\ \E cw \in CharacterWeights :
        \E o \in DrawSteps(cw, SumWeights(cw), <<>>, <<>>) :
            /\ turn_order' = o.order
            /\ panicked' = o.panic
            /\ last_call' = [fn |-> "start_round", character_weights |-> cw,
                             draws |-> o.draws]
    /\ UNCHANGED <<config, battle_state, ui_menus, current_character, world,
                   meta, free, last_tick, round, input_vars, atlas_vars,
                   render_vars>>

NextDraw == StartRoundCall

SpecDraw == InitDraw /\ [][NextDraw]_vars

\* ------------------------------------------------------------------------
\* Weighted draw
\* ------------------------------------------------------------------------

\* the sum of the weights of the candidates before index i
WeightBefore(cw, i) == SumWeights(SubSeq(cw, 1, i - 1))

\* C25: no draw selects a candidate of weight 0, whatever the roll and the
\* order the candidates are scanned in, so in the queue no character of
\* speed 0 stands before a character of positive speed; a roster of one
\* positive and one zero speed always ends with the zero one.
C25_ZeroWeightDrawnLast ==
    last_call.fn = "start_round" =>
        /\ \A k \in DOMAIN last_call.draws :
                last_call.draws[k].candidates[last_call.draws[k].index].weight > 0
        /\ \A i, j \in DOMAIN turn_order :
                (i < j /\ speed[turn_order[i]] = 0) => speed[turn_order[j]] = 0

\* a positive and a zero speed, the zero one scanned first: it is last
C25_Witness ==
    /\ last_call.fn = "start_round"
    /\ panicked = "none"
    /\ Len(last_call.character_weights) = 2
    /\ last_call.character_weights[1].weight = 0
    /\ last_call.character_weights[2].weight = MaxDrawSpeed
    /\ Len(last_call.draws) = 1
    /\ last_call.draws[1].roll = MaxDrawSpeed - 1
    /\ turn_order = <<last_call.character_weights[2].id,
                      last_call.character_weights[1].id>>

\* C26: a start_round that returns has drawn one random number less than
\* there are participants, and none for a single participant or none: the
\* candidate left alone is appended without a draw.
C26_OneDrawLessThanParticipants ==
    (last_call.fn = "start_round" /\ panicked = "none") =>
        LET n == Len(last_call.character_weights)
        IN  /\ Len(last_call.draws) = IF n = 0 THEN 0 ELSE n - 1
            /\ Len(turn_order) = n
            /\ \A k \in DOMAIN last_call.draws :
                    Len(last_call.draws[k].candidates) > 1

\* a round over the largest roster: one draw less than participants; the
\* last of them has weight 0 and needed no draw
C26_Witness ==
    /\ last_call.fn = "start_round"
    /\ panicked = "none"
    /\ Len(last_call.character_weights) = MaxDrawChars
    /\ Len(last_call.draws) = MaxDrawChars - 1
    /\ speed[turn_order[MaxDrawChars]] = 0

\* C27: every draw rolls below the remaining weight, which is the sum of
\* the weights of the candidates it finds; it selects the one candidate
\* whose interval, from the sum of the weights before it up to that sum
\* plus its own weight, holds the roll; the selected candidate goes to the
\* queue, and the next draw finds the candidates without it.
C27_DrawSelectsByInterval ==
    last_call.fn = "start_round" =>
        \A k \in DOMAIN last_call.draws :
            LET d == last_call.draws[k]
                inside(i) ==
                    /\ WeightBefore(d.candidates, i) <= d.roll
                    /\ d.roll < WeightBefore(d.candidates, i) + d.candidates[i].weight
            IN  /\ 0 <= d.roll /\ d.roll < d.weight
                /\ d.weight = SumWeights(d.candidates)
                /\ \A i \in DOMAIN d.candidates : inside(i) <=> i = d.index
                /\ turn_order[k] = d.candidates[d.index].id
                /\ IF k = 1 THEN d.candidates = last_call.character_weights
                   ELSE d.candidates =
                            RemoveAt(last_call.draws[k - 1].candidates,
                                     last_call.draws[k - 1].index)

\* a second draw after a first that skipped a candidate: the roll lies in
\* the interval of a candidate that is not the first
C27_Witness ==
    /\ last_call.fn = "start_round"
    /\ panicked = "none"
    /\ Len(last_call.draws) = 2
    /\ last_call.draws[1].index = 2
    /\ last_call.draws[1].roll > last_call.draws[1].candidates[1].weight
    /\ last_call.draws[1].candidates[1].weight > 0
    /\ last_call.draws[2].index = 2
    /\ last_call.draws[2].weight < last_call.draws[1].weight

\* ------------------------------------------------------------------------
\* The queue, the failed menu and the battle states
\* ------------------------------------------------------------------------

\* no reference stands twice in the queue
NoDuplicates(q) == \A i, j \in DOMAIN q : i # j => q[i] # q[j]

\* C28: the queue never holds a reference twice and holds roster members
\* only; a tick other than the start of a round leaves it alone or removes
\* its front, which becomes the current character; the tick that starts
\* the round's first turn and every tick that completes a turn remove
\* exactly the front while there is one, and hand over to StartingRound
\* when there is none.
C28_QueueOnlyLosesFront ==
    [][/\ NoDuplicates(turn_order')
       /\ Range(turn_order') \subseteq Roster
       /\ battle_state # "StartingRound" =>
            \/ turn_order' = turn_order
            \/ /\ turn_order # <<>>
               /\ turn_order' = Tail(turn_order)
               /\ current_character' = Head(turn_order)
       /\ (\/ battle_state = "StartingTurn"
           \/ battle_state = "WaitingForInput" /\ last_tick'.output = "SkipTurn") =>
            IF turn_order = <<>>
            THEN turn_order' = <<>> /\ battle_state' = "StartingRound"
            ELSE turn_order' = Tail(turn_order)]_vars

\* a completed turn has just removed the front of a queue that held the
\* rest of the round
C28_Witness ==
    /\ last_tick.arm = "WaitingForInput"
    /\ last_tick.output = "SkipTurn"
    /\ Len(round.turns) = 2
    /\ battle_state = "WaitingForInput"
    /\ panicked = "none"

\* C29: when the character at the front of the queue has no action, the
\* step that starts its turn fails on the construction of the menu: no
\* entity is spawned for it, no menu is opened, WaitingForInput is not
\* entered for it, and the battle halts there.
C29_NoActionsHaltsTurnStart ==
    [][(/\ turn_order # <<>>
        /\ turn_order' = Tail(turn_order)
        /\ actions[Head(turn_order)] = <<>>) =>
            /\ panicked' = "unwrap_err"
            /\ DOMAIN world' \subseteq DOMAIN world
            /\ battle_state = "StartingTurn" => world' = world
            /\ ui_menus' = ui_menus
            /\ battle_state' = battle_state]_vars

\* the turn of a character without actions was to start from StartingTurn:
\* the battle has halted, the world is empty, no menu was opened
C29_Witness ==
    /\ panicked = "unwrap_err"
    /\ last_tick.arm = "StartingTurn"
    /\ actions[current_character] = <<>>
    /\ battle_state = "StartingTurn"
    /\ world = <<>>
    /\ ui_menus = <<>>

\* C30: the battle is always in one of Initializing, StartingRound,
\* StartingTurn and WaitingForInput, never in ProcessingCpu, and it is in
\* Initializing only as long as no tick has run.
C30_ProcessingCpuNeverReached ==
    /\ battle_state \in {"Initializing", "StartingRound", "StartingTurn",
                         "WaitingForInput"}
    /\ battle_state = "Initializing" => last_tick = NoTick

\* a round has been played to its end and the battle is back in
\* StartingRound, not in Initializing
C30_Witness ==
    /\ battle_state = "StartingRound"
    /\ last_tick.arm = "WaitingForInput"
    /\ last_tick.output = "SkipTurn"
    /\ turn_order = <<>>

\* C39: no key press is lost or seen twice: at every tick the newly pressed
\* keys are exactly the keys a pressed event arrived for since the tick
\* before, whether or not the key was released in between, and a tick
\* leaves no key newly pressed
C39_PressesReportedOnce ==
    [][/\ just_pressed = delivered
       /\ \A key \in Keys :
            /\ (KeyDown(key) \/ KeyRepeat(key)) => key \in just_pressed'
            /\ KeyUp(key) => just_pressed' = just_pressed
       /\ InputTick => just_pressed' = {}]_vars

\* a key pressed and released again before the tick is still newly pressed
C39_Witness ==
    /\ last_call.fn = "tick"
    /\ \E key \in just_pressed : key \notin held /\ key \in released

\* C33: menu entities never leak: while the battle waits for input the
\* world holds exactly the action menu entity and, exactly when target_menu
\* is set, the target menu entity beside it; in every other battle state
\* the world holds no menu entity
C33_MenuEntitiesNeverLeak ==
    panicked = "none" =>
        IF battle_state = "WaitingForInput"
        THEN /\ Len(ui_menus) = 1
             /\ Menus.action_menu \in DOMAIN world
             /\ Len(Menus.target_menu) <= 1
             /\ \A t \in Range(Menus.target_menu) :
                    t \in DOMAIN world /\ t # Menus.action_menu
             /\ DOMAIN world = {Menus.action_menu} \cup Range(Menus.target_menu)
        ELSE DOMAIN world = {}

\* a later turn's action menu with its target menu open beside it
C33_Witness ==
    /\ panicked = "none" /\ battle_state = "WaitingForInput"
    /\ Menus.target_menu # <<>>
    /\ Cardinality(DOMAIN world) = 2
    /\ Len(round.turns) = 2

\* C38: whenever Forward or Select is processed on the action menu, the
\* options of the menu are the names of the acting character's actions in
\* their order, the selected index is an index of that list and the id found
\* there is one the repository holds: resolving the highlighted action
\* never fails
C38_HighlightedActionResolves ==
    [][(battle_state = "WaitingForInput" /\ panicked = "none"
            /\ last_tick'.arm = "WaitingForInput" /\ last_tick'.menu = "action"
            /\ last_tick'.action \in {"Forward", "Select"}) =>
        LET own == actions[Menus.current_character]
            before == world[Menus.action_menu]
        IN  /\ panicked' # "unwrap_none"
            /\ before.options = [i \in DOMAIN own |-> GetAction(own[i]).name]
            /\ \A i \in DOMAIN own : own[i] \in ActionIds
            /\ before.selected + 1 \in DOMAIN own
            /\ Menus.action_menu \in DOMAIN world' =>
                    world'[Menus.action_menu].selected + 1 \in DOMAIN own]_vars

\* the second action of the list resolved from the action menu
C38_Witness ==
    /\ last_tick.arm = "WaitingForInput" /\ last_tick.menu = "action"
    /\ last_tick.action \in {"Forward", "Select"}
    /\ last_tick.output = "SkipTurn"
    /\ panicked = "none"
    /\ Len(round.turns) = 2
    /\ Len(actions[round.turns[1]]) = 2
    /\ GetAction(actions[round.turns[1]][1]).target.kind \notin {"None", "Caster"}

\* C37: after every call each key of glyphs_in_use is a key of the glyph
\* cache, and a use_glyph that returns an error leaves glyphs_in_use as it
\* was
C37_InUseIsCached ==
    [][/\ text_atlas'.glyphs_in_use \subseteq CachedKeys(text_atlas')
       /\ (last_call'.fn = "use_glyph" /\ last_call'.result # "Ok") =>
            text_atlas'.glyphs_in_use = text_atlas.glyphs_in_use]_vars

\* a use_glyph that evicted an entry, failed on the next one in use and
\* left the keys in use cached
C37_Witness ==
    /\ last_call.fn = "use_glyph" /\ last_call.result = "OutOfSpace"
    /\ Len(last_call.evicted) = 1
    /\ text_atlas.glyphs_in_use # {}
    /\ last_call.key \notin text_atlas.glyphs_in_use
    /\ Cardinality(CachedKeys(text_atlas)) > Cardinality(text_atlas.glyphs_in_use)

\* ------------------------------------------------------------------------
\* cache_glyph step by step: use_glyph on a key the cache does not hold
\* enters the allocate / free_space loop, and every turn of the loop is a
\* step of its own.  last_call holds the position of the call.
\* ------------------------------------------------------------------------

\* a use_glyph is inside the loop of cache_glyph
InCacheGlyph == last_call.fn = "cache_glyph" /\ last_call.result = "pending"

\* use_glyph up to the call of cache_glyph, for a key not cached whose image
\* exists
CacheGlyphEnter(key) ==
    /\ ~InCacheGlyph
    /\ key \notin LruKeys(text_atlas.cached_glyphs)
    /\ GlyphImage(key) # NoImage
    /\ last_call' = [fn |-> "cache_glyph", key |-> key, result |-> "pending",
                     evicted |-> <<>>, turns |-> 0]
    /\ UNCHANGED <<battle_vars, input_vars, atlas_vars, render_vars>>

\* one turn of the loop of cache_glyph: allocate, and on None free_space;
\* on Some the entry is put into the LRU and use_glyph marks the key
CacheGlyphTurn ==
    /\ InCacheGlyph
    /\ LET key == last_call.key
           image == GlyphImage(key)
       IN  \E a \in PackerAllocate(text_atlas.packer, AllocSize(image)) :
            IF a.ok
            THEN LET data == [alloc_id |-> a.id, width |-> AsF32(image.width),
                              height |-> AsF32(image.height)]
                 IN  /\ text_atlas' = [text_atlas EXCEPT
                            !.packer = a.packer,
                            !.cached_glyphs = LruPromote(LruPut(@, key, data), key),
                            !.glyphs_in_use = @ \cup {key}]
                     /\ used_ok' = used_ok \cup {key}
                     /\ last_call' = [last_call EXCEPT !.result = "Ok",
                                                       !.turns = @ + 1]
            ELSE LET f == FreeSpace(text_atlas)
                 IN  /\ text_atlas' = f.atlas
                     /\ UNCHANGED used_ok
                     /\ last_call' =
                            IF f.result # "Ok"
                            THEN [last_call EXCEPT !.result = f.result,
                                                   !.turns = @ + 1]
                            ELSE [last_call EXCEPT !.evicted = Append(@, f.evicted),
                                                   !.turns = @ + 1]
    /\ UNCHANGED <<battle_vars, input_vars, render_vars>>

\* use_glyph on a key the cache holds, between two calls of cache_glyph
CachedGlyphUse(key) ==
    /\ ~InCacheGlyph
    /\ key \in LruKeys(text_atlas.cached_glyphs)
    /\ UseGlyphCall(key)

\* post_render_trim between two calls of cache_glyph
TrimBetweenCalls == ~InCacheGlyph /\ PostRenderTrimCall

NextCache ==
    \/ \E key \in Glyphs : CacheGlyphEnter(key)
    \/ CacheGlyphTurn
    \/ \E key \in Glyphs : CachedGlyphUse(key)
    \/ TrimBetweenCalls

InitCache == InitAtlas

\* the loop runs on once entered
SpecCache == InitCache /\ [][NextCache]_vars /\ WF_vars(CacheGlyphTurn)

\* C36: cache_glyph always terminates: every turn of its loop allocates and
\* ends the call, or evicts exactly one cache entry, or ends the call with
\* an error; a failed allocation on an empty cache ends it with
\* LruStorageError; and a call that has begun ends
C36_CacheGlyphTerminates ==
    /\ [][InCacheGlyph =>
            LET before == Len(text_atlas.cached_glyphs)
                after == Len(text_atlas'.cached_glyphs)
            IN  /\ \/ last_call'.result = "Ok" /\ after = before + 1
                   \/ last_call'.result = "pending" /\ after = before - 1
                      /\ Len(last_call'.evicted) = Len(last_call.evicted) + 1
                   \/ last_call'.result \in {"OutOfSpace", "LruStorageError"}
                      /\ after = before
                /\ (before = 0 /\ last_call'.result # "Ok") =>
                        last_call'.result = "LruStorageError"
                /\ last_call'.turns <= Len(last_call.evicted) + 1]_vars
    /\ (InCacheGlyph ~> ~InCacheGlyph)

\* a call that evicted every entry and ended with LruStorageError
C36_Witness ==
    /\ last_call.fn = "cache_glyph" /\ last_call.result = "LruStorageError"
    /\ Len(last_call.evicted) = 2
    /\ last_call.turns = 3

\* ------------------------------------------------------------------------
\* State::tick step by step, for the battle BattleScene::new builds (every
\* character of equal speed with the one action Idle): the scene update,
\* the renderer's update (the instance pool of the sprites), its render
\* (surface frame acquired and commands submitted, or the frame skipped),
\* then reset_input; KeyboardInput events arrive between two ticks.
\* last_call holds the step to run next and the steps of the tick so far.
\* ------------------------------------------------------------------------

MaxTickKeys == 2

\* the keys of the keyboard events
TickKeys == {<<"Enter", "ArrowDown", "ArrowUp", "ArrowRight", "ArrowLeft">>[i] :
                i \in 1 .. MaxTickKeys}

\* the steps of a tick in an order that clears the input before the render
StepAfterResetsEarly(step) ==
    CASE step = "scene_update" -> "reset_input"
      [] step = "reset_input" -> "renderer_update"
      [] step = "renderer_update" -> "render"
      [] OTHER -> "scene_update"

\* the step State::tick and Renderer::tick run after a step
StepAfter(step) ==
    CASE step = "scene_update" -> "renderer_update"
      [] step = "renderer_update" -> "render"
      [] step = "render" -> "reset_input"
      [] OTHER -> "scene_update"

\* the sprites TextureRenderer::prep finds in the world: every character is
\* spawned with the default texture
WorldSprites == IF Roster = {} THEN <<>> ELSE (1 :> Cardinality(Roster))

\* variant: a render that unwraps the surface frame
RenderFrameUnwraps(atlas, acquired) ==
    [atlas |-> Render(atlas, acquired), submitted |-> acquired,
     panic |-> IF acquired THEN "none" ELSE "unwrap_err"]

\* Renderer::render: with a surface frame the commands are submitted and the
\* atlas trimmed, without one a warning is logged and the function returns
RenderFrame(atlas, acquired) ==
    [atlas |-> Render(atlas, acquired), submitted |-> acquired, panic |-> "none"]

InitTick ==
    /\ \E nf \in 0 .. MaxChars : \E ne \in 0 .. MaxChars - nf :
            /\ friendly = 1 .. nf
            /\ enemy = nf + 1 .. nf + ne
    /\ speed = [c \in friendly \cup enemy |-> MaxSpeed]
    /\ actions = [c \in friendly \cup enemy |-> <<0>>]
    /\ battle_state = "Initializing"
    /\ ui_menus = <<>>
    /\ current_character = Dangling
    /\ turn_order = <<>>
    /\ world = <<>> /\ meta = <<>> /\ free = <<>>
    /\ panicked = "none"
    /\ last_tick = NoTick
    /\ round = NoRound
    /\ last_call = [fn |-> "state_tick", pc |-> "scene_update", trace |-> <<>>,
                    submits |-> 0, prev_skipped |-> FALSE]
    /\ NoInput
    /\ NoAtlas
    /\ NoText
    /\ pipeline = "texture"
    /\ instances = <<>> /\ previous = {}
    /\ to_draw = <<>> /\ textures_to_add = {}

\* WindowEvent::KeyboardInput, handled between two ticks
WindowKeyboardInput ==
    /\ panicked = "none"
    /\ last_call.pc = "scene_update"
    /\ \E key \in TickKeys : KeyDown(key) \/ KeyRepeat(key) \/ KeyUp(key)
    /\ UNCHANGED <<battle_vars, last_call, atlas_vars, render_vars>>

\* self.scene.update(&mut self.inner): tick_battle on the keys newly pressed
StateTickSceneUpdate ==
    /\ panicked = "none"
    /\ last_call.pc = "scene_update"
    /\ IF battle_state = "WaitingForInput"
       THEN TickWaitingForInput(just_pressed)
       ELSE TickBattle
    /\ last_call' = [fn |-> "state_tick", pc |-> StepAfter("scene_update"),
                     trace |-> <<"scene_update">>, submits |-> 0,
                     prev_skipped |-> "skip" \in Range(last_call.trace)]
    /\ UNCHANGED <<config, input_vars, atlas_vars, render_vars>>

\* Renderer::update: the instance pool follows the sprites of the world
StateTickRendererUpdate ==
    /\ panicked = "none"
    /\ last_call.pc = "renderer_update"
    /\ instances' = TextureRendererPrep(instances, WorldSprites)
    /\ last_call' = [last_call EXCEPT !.pc = StepAfter("renderer_update"),
                                      !.trace = Append(@, "renderer_update")]
    /\ UNCHANGED <<battle_vars, input_vars, atlas_vars, text_blocks, text_seen,
                   pipeline, previous, to_draw, textures_to_add>>

\* Renderer::render
StateTickRender(acquired) ==
    /\ panicked = "none"
    /\ last_call.pc = "render"
    /\ LET r == RenderFrame(text_atlas, acquired)
       IN  /\ text_atlas' = r.atlas
           /\ used_ok' = IF r.submitted THEN {} ELSE used_ok
           /\ panicked' = r.panic
           /\ last_call' = [last_call EXCEPT
                    !.pc = StepAfter("render"),
                    !.trace = Append(@, IF r.submitted THEN "submit" ELSE "skip"),
                    !.submits = @ + (IF r.submitted THEN 1 ELSE 0)]
    /\ UNCHANGED <<config, battle_state, ui_menus, current_character, turn_order,
                   world, meta, free, last_tick, round, input_vars, render_vars>>

\* tools::reset_input at the end of State::tick
StateTickResetInput ==
    /\ panicked = "none"
    /\ last_call.pc = "reset_input"
    /\ ResetInput
    /\ fresh' = {}
    /\ delivered' = {}
    /\ last_call' = [last_call EXCEPT !.pc = StepAfter("reset_input"),
                                      !.trace = Append(@, "reset_input")]
    /\ UNCHANGED <<battle_vars, held, atlas_vars, render_vars>>

NextTick ==
    \/ WindowKeyboardInput
    \/ StateTickSceneUpdate
    \/ StateTickRendererUpdate
    \/ \E acquired \in BOOLEAN : StateTickRender(acquired)
    \/ StateTickResetInput

SpecTick == InitTick /\ [][NextTick]_vars

\* the state the battle logic owns
SceneState ==
    <<battle_state, ui_menus, current_character, turn_order, world, meta, free,
      last_tick, round>>

\* C31: within every tick the steps run in one order: the battle advances
\* and reads the keys only in the scene update, the first step; the instance
\* pool changes only in the step after it; commands are submitted only
\* after both; and the newly pressed keys are cleared only after the render
\* was submitted or skipped
C31_TickStepsInOrder ==
    [][/\ SceneState' # SceneState =>
            /\ last_call.pc = "scene_update"
            /\ last_call'.trace = <<"scene_update">>
       /\ instances' # instances =>
            last_call.trace = <<"scene_update">>
       /\ last_call'.submits > last_call.submits =>
            last_call.trace = <<"scene_update", "renderer_update">>
       /\ ~(just_pressed \subseteq just_pressed') =>
            /\ Len(last_call.trace) = 3
            /\ SubSeq(last_call.trace, 1, 2) = <<"scene_update", "renderer_update">>
            /\ last_call.trace[3] \in {"submit", "skip"}
            /\ just_pressed' = {}]_vars

\* a tick that resolved a turn on Enter, filled the pool, submitted and
\* then cleared the keys
C31_Witness ==
    /\ last_call.trace = <<"scene_update", "renderer_update", "submit", "reset_input">>
    /\ last_tick.arm = "WaitingForInput" /\ last_tick.output = "SkipTurn"
    /\ instances # <<>>
    /\ delivered = {} /\ just_pressed = {}
    /\ held # {}

InitBuffers ==
    /\ NoBattle
    /\ NoInput
    /\ NoAtlas
    /\ NoRender
    /\ last_call = NoCall

\* InstanceBuffer::new with `len` instances
InstanceBufferNewCall(id, len) ==
    /\ instances' = [k \in DOMAIN instances \cup {id} |->
                        IF k = id THEN NewInstanceBuffer(len) ELSE instances[k]]
    /\ last_call' = [fn |-> "instance_buffer_new", id |-> id, len |-> len]
    /\ UNCHANGED <<battle_vars, input_vars, atlas_vars, text_blocks, text_seen,
                   pipeline, previous, to_draw, textures_to_add>>

\* InstanceBuffer::update with `len` instances
InstanceBufferUpdateCall(id, len) ==
    /\ id \in DOMAIN instances
    /\ instances' = [k \in DOMAIN instances |->
                        IF k = id THEN UpdateInstanceBuffer(instances[k], len).buffer
                        ELSE instances[k]]
    /\ last_call' = [fn |-> "instance_buffer_update", id |-> id, len |-> len]
    /\ UNCHANGED <<battle_vars, input_vars, atlas_vars, text_blocks, text_seen,
                   pipeline, previous, to_draw, textures_to_add>>

NextBuffers ==
    \/ \E id \in TextureIds, len \in 0 .. MaxInstances :
            InstanceBufferNewCall(id, len)
    \/ \E id \in TextureIds, len \in 0 .. MaxInstances :
            InstanceBufferUpdateCall(id, len)

SpecBuffers == InitBuffers /\ [][NextBuffers]_vars

\* C35: after every create and every update, with an empty list too, the
\* count of the buffer is the length of the list just supplied, the other
\* buffers are as before, and no buffer's count exceeds the size of its GPU
\* buffer
C35_CountWithinBuffer ==
    [][\A id \in TextureIds, len \in 0 .. MaxInstances :
        (InstanceBufferNewCall(id, len) \/ InstanceBufferUpdateCall(id, len)) =>
            /\ instances'[id].count = len
            /\ \A k \in DOMAIN instances' :
                    /\ instances'[k].count <= instances'[k].size
                    /\ k # id => k \in DOMAIN instances /\ instances'[k] = instances[k]]_vars

\* an update with no data replaced a buffer by an empty one, beside a buffer
\* that an update in place left with fewer instances than its size
C35_Witness ==
    /\ last_call.fn = "instance_buffer_update" /\ last_call.len = 0
    /\ instances[last_call.id] = NewInstanceBuffer(0)
    /\ \E k \in DOMAIN instances : instances[k].count < instances[k].size

\* ------------------------------------------------------------------------
\* One text block laid out again between passes: the cosmic_text Buffer of
\* the block is re-shaped (set_metrics, or any other call on the Buffer from
\* inside text_shared) and comes back with any layout, with more lines or
\* fewer.  A Buffer holds at least one line, which may be empty.
\* ------------------------------------------------------------------------

\* the block that is laid out again
RelaidBlock == 1

InitRelayout ==
    /\ NoBattle
    /\ NoInput
    /\ NoAtlas
    /\ NoPool
    /\ last_call = NoCall
    /\ \E layout \in TextLayouts \ {<<>>}, color \in Colors :
            text_blocks = [b \in Blocks |->
                            IF b = RelaidBlock THEN TextBufferNew(layout, color)
                            ELSE TextBufferNew(<<<<>>>>, 0)]
    /\ text_seen = [b \in Blocks |-> <<>>]

\* the Buffer of block b is shaped again and lays out as `layout`
RelayoutCall(b, layout) ==
    /\ panicked = "none"
    /\ layout # <<>>
    /\ layout # text_blocks[b].buffer
    /\ text_blocks' = [text_blocks EXCEPT ![b].buffer = layout]
    /\ last_call' = [fn |-> "relayout", block |-> b]
    /\ UNCHANGED <<battle_vars, input_vars, atlas_vars, text_seen, pool_vars>>

NextRelayout ==
    \/ PrepCall(RelaidBlock)
    \/ \E layout \in TextLayouts : RelayoutCall(RelaidBlock, layout)

SpecRelayout == InitRelayout /\ [][NextRelayout]_vars

\* the glyphs a block shows, line after line
RECURSIVE ShownGlyphs(_)
ShownGlyphs(shown) ==
    IF shown = <<>> THEN <<>> ELSE Head(shown) \o ShownGlyphs(Tail(shown))

\* C34: a pass over a block whose glyphs (key and colour of each, line after
\* line) are not those of its previous pass returns a rebuild
C34_ChangedContentRebuilds ==
    [][(PrepCall(RelaidBlock) /\ panicked' = "none"
            /\ text_seen[RelaidBlock] # <<>>
            /\ ShownGlyphs(text_seen[RelaidBlock][1])
                    # ShownGlyphs(Shown(text_blocks[RelaidBlock]))) =>
        last_call'.rebuild]_vars

\* ------------------------------------------------------------------------
\* The battle under a player who resolves every turn: ticks keep coming
\* (the event loop re-arms the redraw before every tick), and the player,
\* whenever a confirming input would open the target menu or resolve the
\* turn again and again, eventually gives it.
\* ------------------------------------------------------------------------

\* a tick whose input resolves the turn
ResolvingTick == Tick /\ last_tick'.output = "SkipTurn"

\* a tick whose input opens the target menu
OpeningTick ==
    /\ Tick
    /\ battle_state = "WaitingForInput" /\ Menus.target_menu = <<>>
    /\ last_tick'.output = "None" /\ panicked' = "none"
    /\ ui_menus'[1].target_menu # <<>>

SpecPlayed ==
    /\ Init
    /\ [][Next]_vars
    /\ WF_vars(Tick)
    /\ SF_vars(ResolvingTick)
    /\ SF_vars(OpeningTick)

\* C40: when every character has at least one action and the player
\* resolves every turn, start_round runs again and again and every roster
\* member is the current character of a turn again and again
C40_BattleKeepsGoing ==
    (\A c \in Roster : actions[c] # <<>>) =>
        /\ []<>(last_tick.arm = "StartingRound")
        /\ \A c \in 1 .. MaxChars :
                c \in Roster =>
                    []<>(battle_state = "WaitingForInput" /\ current_character = c)

====
